---- MODULE Spec2Model ----
(***************************************************************************)
(* Model of the dependency-graph builder (src/dependency_graph/extractor)  *)
(* and of the Terraform attribute resolver (src/terraform_parser/parser).  *)
(* Strings are sequences of one-character strings, so that splitting,      *)
(* lower-casing and substring replacement are computed, not assumed.       *)
(***************************************************************************)
EXTENDS Integers, Sequences, FiniteSets, TLC

VARIABLES
    \* build_dependency_graph
    root_dependencies, max_depth, dependency_graph, visited, to_process,
    pc, pkg_name, depth,
    \* observation of build_dependency_graph: fetches made, what the last one
    \* returned, names enqueued, whether time.sleep(0.1) has run since the last
    \* fetch returned, items dropped at the depth bound
    fetch_log, fetch_result, enqueued, slept, skipped,
    \* create_networkx_graph
    nx_input, nx_keys, nx_root, G, nx_pc,
    \* calculate_graph_metrics: the dictionary returned
    metrics,
    \* ParsedTerraformConfig and resolve_variable_references
    config, parsed, tf_pc,
    \* parse_terraform_file and parse_directory: the path given, the config
    \* before resolution, the config returned, the exception raised
    tf_file, directory, detected, returned, raised, parse_pc,
    \* _normalize_package_name: the argument and the value returned
    specifier, normalized, norm_pc,
    \* load_or_build_dependency_graph: the cache file, the last call and what
    \* it returned
    cache_file, request, graph_out, fetches, serialized, calls,
    \* the plotting functions of the visualizer: the arguments of the call, the
    \* exception raised, what the call created on disk
    viz_request, viz_raised, viz_created, viz_pc,
    \* fetch_pypi_metadata: the retries argument, the loop variable, what was
    \* requested and slept so far, the value returned
    retries, attempt, fp_log, fp_result, fp_pc

bvars == <<root_dependencies, max_depth, dependency_graph, visited, to_process,
           pc, pkg_name, depth, fetch_log, fetch_result, enqueued, slept, skipped>>
nvars == <<nx_input, nx_keys, nx_root, G, nx_pc, metrics>>
tvars == <<config, parsed, tf_pc>>
pvars == <<tf_file, directory, detected, returned, raised, parse_pc>>
svars == <<specifier, normalized, norm_pc>>
cvars == <<cache_file, request, graph_out, fetches, serialized, calls>>
zvars == <<viz_request, viz_raised, viz_created, viz_pc>>
fvars == <<retries, attempt, fp_log, fp_result, fp_pc>>
vars == <<bvars, nvars, tvars, pvars, svars, cvars, zvars, fvars>>

----------------------------------------------------------------------------
(* Bounds of the model *)

MaxRoots == 2
MaxDeps == 2
MaxEdges == 2
MaxDepthBound == 2
MaxAppends == 3
MaxLocals == 2
MaxResources == 1
MaxIngress == 2
MaxFiles == 2
MaxSpecLen == 3
MaxCalls == 2
MaxRetries == 4

----------------------------------------------------------------------------
(* Strings as character sequences *)

\* s has `sub` at position i (1-based)
StartsWithAt(s, sub, i) ==
    /\ i + Len(sub) - 1 <= Len(s)
    /\ \A k \in 1..Len(sub) : s[i + k - 1] = sub[k]

\* Python `sub in s`
Contains(s, sub) == \E i \in 1..(Len(s) + 1) : StartsWithAt(s, sub, i)

Min(S) == CHOOSE x \in S : \A y \in S : x <= y

DigitChars == <<"0", "1", "2", "3", "4", "5", "6", "7", "8", "9">>

RECURSIVE ReplaceFrom(_, _, _, _)
\* Python str.replace: leftmost, non-overlapping occurrences, scanning from i
ReplaceFrom(s, old, new, i) ==
    IF i > Len(s) THEN <<>>
    ELSE IF StartsWithAt(s, old, i)
         THEN new \o ReplaceFrom(s, old, new, i + Len(old))
         ELSE <<s[i]>> \o ReplaceFrom(s, old, new, i + 1)

\* s.replace(old, new), old non-empty
str_replace(s, old, new) == ReplaceFrom(s, old, new, 1)

\* str.lower() on the upper-case letters the inputs use
Lower(c) ==
    CASE c = "A" -> "a"
      [] c = "B" -> "b"
      [] c = "C" -> "c"
      [] c = "D" -> "d"
      [] OTHER -> c

\* the string with its case left as it is
KeepCase(s) == s

str_lower(s) == [i \in 1..Len(s) |-> Lower(s[i])]

\* the whitespace str.strip() removes, among the characters the inputs use
IsSpace(c) == c \in {" ", "\t"}

RECURSIVE LStrip(_)
LStrip(s) == IF s # <<>> /\ IsSpace(Head(s)) THEN LStrip(Tail(s)) ELSE s

RECURSIVE RStrip(_)
RStrip(s) ==
    IF s # <<>> /\ IsSpace(s[Len(s)]) THEN RStrip(SubSeq(s, 1, Len(s) - 1)) ELSE s

str_strip(s) == RStrip(LStrip(s))

----------------------------------------------------------------------------
(* _normalize_package_name *)

SpecifierChars == {">", "=", "<", "@", "["}

RECURSIVE FirstToken(_)
\* re.split(r"[>=<@\[]", s)[0]
FirstToken(s) ==
    IF s = <<>> \/ Head(s) \in SpecifierChars THEN <<>>
    ELSE <<Head(s)>> \o FirstToken(Tail(s))

normalize_package_name(pkg_spec) ==
    str_replace(str_lower(str_strip(FirstToken(pkg_spec))), <<"_">>, <<"-">>)

\* the characters of the specifiers given to _normalize_package_name
NormChars == {"A", "b", "_", "-", " ", "\t", ">", "["}

NormIdle == specifier = <<>> /\ normalized = <<>> /\ norm_pc = "idle"

NormInit ==
    /\ specifier \in UNION {[1..k -> NormChars] : k \in 0..MaxSpecLen}
    /\ normalized = <<>>
    /\ norm_pc = "called"

\* a call _normalize_package_name(specifier) returns
NormalizePackageName ==
    /\ norm_pc = "called"
    /\ normalized' = normalize_package_name(specifier)
    /\ norm_pc' = "returned"
    /\ UNCHANGED specifier

----------------------------------------------------------------------------
(* fetch_pypi_metadata *)

\* what one requests.get can come to: a 200 with a JSON body, a 404, another
\* HTTP error status (raise_for_status raises), no response at all
Responses == {"200", "404", "500", "timeout"}

Get(i, response) == [kind |-> "get", attempt |-> i, response |-> response]
Sleep(i, seconds) == [kind |-> "sleep", attempt |-> i, seconds |-> seconds]

\* a wait that grows by a fixed step
LinearWait(i) == 2 * i

\* line 212: wait_time = 2**attempt
WaitTime(i) == 2 ^ i

FetchIdle ==
    /\ retries = 0 /\ attempt = 0 /\ fp_log = <<>> /\ fp_result = "" /\ fp_pc = "idle"

FetchInit ==
    /\ retries \in 0..MaxRetries
    /\ attempt = 0 /\ fp_log = <<>> /\ fp_result = "" /\ fp_pc = "for"

\* lines 203-209: one pass of the try block
RequestsGet ==
    /\ fp_pc = "for" /\ attempt < retries
    /\ \E response \in Responses :
         /\ fp_log' = Append(fp_log, Get(attempt, response))
         /\ CASE response = "404" -> fp_result' = "None" /\ fp_pc' = "returned"
              [] response = "200" -> fp_result' = "metadata" /\ fp_pc' = "returned"
              [] OTHER -> fp_result' = fp_result /\ fp_pc' = "except"
    /\ UNCHANGED <<retries, attempt>>

\* lines 210-216: the handler while attempts are left
Backoff ==
    /\ fp_pc = "except" /\ attempt < retries - 1
    /\ fp_log' = Append(fp_log, Sleep(attempt, WaitTime(attempt)))
    /\ attempt' = attempt + 1
    /\ fp_pc' = "for"
    /\ UNCHANGED <<retries, fp_result>>

\* lines 217-219: the handler on the last attempt
GiveUp ==
    /\ fp_pc = "except" /\ ~(attempt < retries - 1)
    /\ fp_result' = "None"
    /\ fp_pc' = "returned"
    /\ UNCHANGED <<retries, attempt, fp_log>>

\* range(retries) is empty: the function falls off its end
FallThrough ==
    /\ fp_pc = "for" /\ ~(attempt < retries)
    /\ fp_result' = "None"
    /\ fp_pc' = "returned"
    /\ UNCHANGED <<retries, attempt, fp_log>>

----------------------------------------------------------------------------
(* extract_dependencies_from_metadata *)

ExtraEq == <<"e", "x", "t", "r", "a", " ", "=", "=">>

RECURSIVE ExtractFrom(_)
ExtractFrom(requires_dist) ==
    IF requires_dist = <<>> THEN <<>>
    ELSE LET req == Head(requires_dist)
             rest == ExtractFrom(Tail(requires_dist))
         IN IF Contains(req, <<";">>) \/ Contains(req, ExtraEq) THEN rest
            ELSE IF normalize_package_name(req) # <<>>
                 THEN <<normalize_package_name(req)>> \o rest
                 ELSE rest

\* metadata is a record [has_info, requires_dist]
extract_dependencies_from_metadata(metadata) ==
    IF ~metadata.has_info THEN <<>> ELSE ExtractFrom(metadata.requires_dist)

----------------------------------------------------------------------------
(* Inputs of build_dependency_graph and answers of the registry *)

\* root specifications: "a", "A" and "b "; the first two normalize alike
RootSpecs == {<<"a">>, <<"A">>, <<"b", " ">>}

\* requirement strings a registry answer may hold in requires_dist
\* "a", "b", "C>=1" and the conditional "d;x"
ReqSpecs == {<<"a">>, <<"b">>, <<"C", ">", "=", "1">>, <<"d", ";", "x">>}

SeqsUpTo(S, n) == UNION {[1..k -> S] : k \in 0..n}

Metadatas ==
    {[has_info |-> TRUE, requires_dist |-> r] : r \in SeqsUpTo(ReqSpecs, MaxDeps)}
    \cup {[has_info |-> FALSE, requires_dist |-> <<>>]}

\* fetch_pypi_metadata returns None on a 404 and after the last failed attempt
NoneOutcomes == {"notfound", "failed"}

Range(f) == {f[x] : x \in DOMAIN f}

RECURSIVE SumCard(_, _)
SumCard(g, keys) ==
    IF keys = {} THEN 0
    ELSE LET k == CHOOSE x \in keys : TRUE
         IN Cardinality(g[k]) + SumCard(g, keys \ {k})

\* sum(len(v) for v in dependency_graph.values())
NumEdges(g) == SumCard(g, DOMAIN g)

----------------------------------------------------------------------------
(* build_dependency_graph *)

\* the head is read but left on the list
PeekFront(queue) == queue

\* to_process.pop(0): the list that remains
PopFront(queue) == Tail(queue)

\* the visited test left out
NeverVisited(name, seen) == FALSE

\* `pkg_name in visited`
AlreadyVisited(name, seen) == name \in seen

\* the bound compared with > instead of >=
DepthExceeded(bound, d) == bound > 0 /\ d > bound

\* `max_depth > 0 and depth >= max_depth`
DepthReached(bound, d) == bound > 0 /\ d >= bound

\* the name is fetched without being marked
NotMarked(seen, name) == seen

\* line 285: visited.add(pkg_name)
MarkVisited(seen, name) == seen \cup {name}

\* new items go to the head of the queue
PushFront(queue, items) == items \o queue

\* line 301: to_process.append(...) for each new item in turn
AppendAll(queue, items) == queue \o items

RECURSIVE NewItems(_, _, _)
\* for dep in deps: if dep not in visited: to_process.append((dep, depth + 1))
NewItems(deps, seen, d) ==
    IF deps = <<>> THEN <<>>
    ELSE IF Head(deps) \notin seen
         THEN <<<<Head(deps), d + 1>>>> \o NewItems(Tail(deps), seen, d)
         ELSE NewItems(Tail(deps), seen, d)

\* the graph after `dependency_graph[pkg_name] = value`
SetItem(g, name, value) ==
    [k \in DOMAIN g \cup {name} |-> IF k = name THEN value ELSE g[k]]

\* the failed package is not recorded
DropLeaf(g, name) == g

\* `dependency_graph[pkg_name] = set()` on a fetch that returned None
RecordLeaf(g, name) == SetItem(g, name, {})

\* number of fetch_pypi_metadata calls made for `name`
NumFetches(name) == Cardinality({i \in 1..Len(fetch_log) : fetch_log[i][1] = name})

FetchedNames == {fetch_log[i][1] : i \in 1..Len(fetch_log)}

EnqueuedOf(items) ==
    {<<normalize_package_name(items[i][1]), items[i][2]>> : i \in 1..Len(items)}

EmptyMap == [k \in {} |-> {}]

BuildIdle ==
    /\ root_dependencies = <<>> /\ max_depth = 0 /\ dependency_graph = EmptyMap
    /\ visited = {} /\ to_process = <<>> /\ pc = "idle" /\ pkg_name = <<>>
    /\ depth = 0 /\ fetch_log = <<>> /\ fetch_result = "none"
    /\ enqueued = {} /\ slept = FALSE /\ skipped = {}

\* lines 268-270: the state on entry to the while loop
BuildInit ==
    /\ root_dependencies \in SeqsUpTo(RootSpecs, MaxRoots)
    /\ max_depth \in 0..MaxDepthBound
    /\ dependency_graph = EmptyMap
    /\ visited = {}
    /\ to_process = [i \in 1..Len(root_dependencies) |-> <<root_dependencies[i], 0>>]
    /\ pc = "loop"
    /\ pkg_name = <<>>
    /\ depth = 0
    /\ fetch_log = <<>>
    /\ fetch_result = "none"
    /\ enqueued = EnqueuedOf(to_process)
    /\ slept = FALSE
    /\ skipped = {}

\* lines 277-281: pop an item whose name was visited already
SkipVisited ==
    /\ pc = "loop" /\ to_process # <<>>
    /\ AlreadyVisited(normalize_package_name(Head(to_process)[1]), visited)
    /\ to_process' = PopFront(to_process)
    /\ UNCHANGED <<root_dependencies, max_depth, dependency_graph, visited, pc,
                   pkg_name, depth, fetch_log, fetch_result, enqueued, slept,
                   skipped>>

\* lines 277-283: pop an item at or beyond the depth bound
SkipDepth ==
    /\ pc = "loop" /\ to_process # <<>>
    /\ ~AlreadyVisited(normalize_package_name(Head(to_process)[1]), visited)
    /\ DepthReached(max_depth, Head(to_process)[2])
    /\ to_process' = PopFront(to_process)
    /\ skipped' = skipped \cup EnqueuedOf(<<Head(to_process)>>)
    /\ UNCHANGED <<root_dependencies, max_depth, dependency_graph, visited, pc,
                   pkg_name, depth, fetch_log, fetch_result, enqueued, slept>>

\* lines 277-286: pop, mark visited; fetch_pypi_metadata is called next
Visit ==
    /\ pc = "loop" /\ to_process # <<>>
    /\ ~AlreadyVisited(normalize_package_name(Head(to_process)[1]), visited)
    /\ ~DepthReached(max_depth, Head(to_process)[2])
    /\ pkg_name' = normalize_package_name(Head(to_process)[1])
    /\ depth' = Head(to_process)[2]
    /\ to_process' = PopFront(to_process)
    /\ visited' = MarkVisited(visited, pkg_name')
    /\ pc' = "fetch"
    /\ UNCHANGED <<root_dependencies, max_depth, dependency_graph, fetch_log,
                   fetch_result, enqueued, slept, skipped>>

\* lines 289-292: the fetch returned None (404, or retries exhausted); the
\* continue of line 292 leaves the iteration before line 304
FetchNone ==
    /\ pc = "fetch"
    /\ \E outcome \in NoneOutcomes : fetch_result' = outcome
    /\ fetch_log' = Append(fetch_log, <<pkg_name, depth>>)
    /\ dependency_graph' = RecordLeaf(dependency_graph, pkg_name)
    /\ slept' = FALSE
    /\ pc' = "loop"
    /\ UNCHANGED <<root_dependencies, max_depth, visited, to_process, pkg_name,
                   depth, enqueued, skipped>>

\* lines 289-304: the fetch returned metadata
FetchOk ==
    /\ pc = "fetch"
    /\ \E metadata \in Metadatas :
         LET deps == extract_dependencies_from_metadata(metadata)
             items == NewItems(deps, visited, depth)
         IN /\ NumEdges(dependency_graph) + Len(metadata.requires_dist) <= MaxEdges
            /\ dependency_graph' = SetItem(dependency_graph, pkg_name, Range(deps))
            /\ to_process' = AppendAll(to_process, items)
            /\ enqueued' = enqueued \cup EnqueuedOf(items)
    /\ fetch_log' = Append(fetch_log, <<pkg_name, depth>>)
    /\ fetch_result' = "ok"
    /\ slept' = TRUE
    /\ pc' = "loop"
    /\ UNCHANGED <<root_dependencies, max_depth, visited, pkg_name, depth, skipped>>

\* lines 276, 306-311: the queue is empty, the graph is returned
Return ==
    /\ pc = "loop" /\ to_process = <<>>
    /\ pc' = "done"
    /\ UNCHANGED <<root_dependencies, max_depth, dependency_graph, visited,
                   to_process, pkg_name, depth, fetch_log, fetch_result, enqueued,
                   slept, skipped>>


----------------------------------------------------------------------------
(* load_or_build_dependency_graph *)

SleapNN == <<"s", "l", "e", "a", "p", "-", "n", "n">>

\* the registry the builds run against: what fetch_pypi_metadata returns for a
\* name (found = FALSE stands for None)
PyPI(name) ==
    CASE name = <<"a">> ->
           [found |-> TRUE,
            metadata |-> [has_info |-> TRUE, requires_dist |-> <<<<"b">>, <<"c">>>>]]
      [] name = <<"b">> ->
           [found |-> TRUE, metadata |-> [has_info |-> TRUE, requires_dist |-> <<<<"c">>>>]]
      [] name = <<"c">> ->
           [found |-> TRUE, metadata |-> [has_info |-> TRUE, requires_dist |-> <<>>]]
      [] OTHER -> [found |-> FALSE, metadata |-> [has_info |-> FALSE, requires_dist |-> <<>>]]

RECURSIVE BuildLoop(_, _, _, _, _)
\* the while loop of build_dependency_graph run to its end against PyPI; n
\* counts the calls of fetch_pypi_metadata
BuildLoop(g, seen, queue, bound, n) ==
    IF queue = <<>> THEN [graph |-> g, fetches |-> n]
    ELSE LET name == normalize_package_name(Head(queue)[1])
             d == Head(queue)[2]
             answer == PyPI(name)
             deps == extract_dependencies_from_metadata(answer.metadata)
         IN IF AlreadyVisited(name, seen) \/ DepthReached(bound, d)
            THEN BuildLoop(g, seen, PopFront(queue), bound, n)
            ELSE IF ~answer.found
            THEN BuildLoop(RecordLeaf(g, name), seen \cup {name}, PopFront(queue),
                           bound, n + 1)
            ELSE BuildLoop(SetItem(g, name, Range(deps)), seen \cup {name},
                           PopFront(queue) \o NewItems(deps, seen \cup {name}, d),
                           bound, n + 1)

\* build_dependency_graph(root_dependencies, max_depth=bound)
build_dependency_graph(roots, bound) ==
    BuildLoop(EmptyMap, {}, [i \in 1..Len(roots) |-> <<roots[i], 0>>], bound, 0)

\* dep_data of the two sources: a path and a URL; optional-dependencies is a
\* dict in order, a sequence of <<group, specifiers>>
DepData(sleap_source) ==
    IF sleap_source = "C:/repos/sleap"
    THEN [dependencies |-> <<<<"a">>>>,
          optional |-> <<<<"nn-cuda128", <<SleapNN \o <<"[", "t", "]">>>>>>>>]
    ELSE [dependencies |-> <<<<"b">>>>, optional |-> <<<<"dev", <<<<"a">>>>>>>>]

RECURSIVE OptionalDeps(_, _, _)
\* the specifiers of the groups (of every group when group = "")
OptionalDeps(optional, group, i) ==
    IF i > Len(optional) THEN <<>>
    ELSE (IF group \in {"", optional[i][1]} THEN optional[i][2] ELSE <<>>)
           \o OptionalDeps(optional, group, i + 1)

\* lines 191-205: the root dependencies given to the build
AllDeps(dep_data, include_optional) ==
    LET all_deps == dep_data.dependencies
                      \o (IF include_optional THEN OptionalDeps(dep_data.optional, "", 1)
                          ELSE <<>>)
        nn_cuda128_deps == OptionalDeps(dep_data.optional, "nn-cuda128", 1)
    IN IF /\ ~\E i \in 1..Len(all_deps) : Contains(all_deps[i], SleapNN)
          /\ nn_cuda128_deps # <<>> /\ ~include_optional
       THEN all_deps \o nn_cuda128_deps
       ELSE all_deps

\* {k: list(v) for k, v in graph.items()}: each set in some order
ListsOf(graph) ==
    {lists \in [DOMAIN graph -> UNION {[1..Cardinality(graph[k]) -> graph[k]] :
                                          k \in DOMAIN graph}] :
        \A k \in DOMAIN graph :
            Len(lists[k]) = Cardinality(graph[k]) /\ Range(lists[k]) = graph[k]}

\* {k: set(v) for k, v in cache_data["graph"].items()}
SetsOf(lists) == [k \in DOMAIN lists |-> Range(lists[k])]

NoCache ==
    [exists |-> FALSE, graph |-> EmptyMap, timestamp |-> 0, source |-> "",
     max_depth |-> 0, include_optional |-> FALSE]

\* the cache is read whenever the file exists
CachePresent(cache, force_refresh) == cache.exists

\* line 172: cache_path.exists() and not force_refresh
CacheHit(cache, force_refresh) == cache.exists /\ ~force_refresh

Requests ==
    [sleap_source : {"C:/repos/sleap", "https://github.com/talmolab/sleap"},
     max_depth : 0..MaxDepthBound, include_optional : BOOLEAN,
     force_refresh : BOOLEAN]

\* no cache file yet, no call made
CacheInit ==
    /\ cache_file = NoCache /\ request = <<>> /\ graph_out = EmptyMap
    /\ fetches = 0 /\ serialized = EmptyMap /\ calls = 0

\* one call of load_or_build_dependency_graph on the same cache_path; `request`
\* keeps the arguments and whether the cache file was there, `serialized` the
\* graph given to json.dump by the last build, `calls` is the clock
LoadOrBuildDependencyGraph ==
    /\ calls < MaxCalls
    /\ calls' = calls + 1
    /\ \E req \in Requests :
         /\ request' = [args |-> req, cache_present |-> cache_file.exists]
         /\ IF CacheHit(cache_file, req.force_refresh)
            THEN /\ graph_out' = SetsOf(cache_file.graph)
                 /\ fetches' = 0
                 /\ UNCHANGED <<cache_file, serialized>>
            ELSE LET built == build_dependency_graph(
                                  AllDeps(DepData(req.sleap_source), req.include_optional),
                                  req.max_depth)
                 IN /\ graph_out' = built.graph
                    /\ fetches' = built.fetches
                    /\ serialized' = built.graph
                    /\ \E lists \in ListsOf(built.graph) :
                         cache_file' = [exists |-> TRUE, graph |-> lists,
                                        timestamp |-> calls', source |-> req.sleap_source,
                                        max_depth |-> req.max_depth,
                                        include_optional |-> req.include_optional]

----------------------------------------------------------------------------
(* create_networkx_graph *)

\* PACKAGE_CATEGORIES, abridged to its short entries; no package name of the
\* inputs below contains an entry of the full table
PACKAGE_CATEGORIES ==
    << <<"ml", {<<"s","l","e","a","p">>}>>,
       <<"scientific", {<<"n","u","m","p","y">>}>>,
       <<"data", {<<"p","i","l">>, <<"c","v","2">>}>>,
       <<"visualization", {<<"b","o","k","e","h">>}>>,
       <<"utilities", {<<"p","i","p">>}>> >>

RECURSIVE CategoryFrom(_, _)
CategoryFrom(package_lower, i) ==
    IF i > Len(PACKAGE_CATEGORIES) THEN "utilities"
    ELSE IF \E pkg \in PACKAGE_CATEGORIES[i][2] : Contains(package_lower, pkg)
         THEN PACKAGE_CATEGORIES[i][1]
         ELSE CategoryFrom(package_lower, i + 1)

categorize_package(package) == CategoryFrom(str_lower(package), 1)

\* a DiGraph: the node attributes, the edges, the nodes in insertion order
EmptyGraph == [nodes |-> EmptyMap, edges |-> {}, order |-> <<>>]

\* G.add_node(n, **attrs)
AddNode(g, n, attrs) ==
    [nodes |-> SetItem(g.nodes, n, attrs),
     edges |-> g.edges,
     order |-> IF n \in DOMAIN g.nodes THEN g.order ELSE Append(g.order, n)]

\* G.add_edge(u, v): end points that are no nodes yet are added without attributes
AddEdge(g, u, v) ==
    [nodes |-> [n \in DOMAIN g.nodes \cup {u, v} |->
                   IF n \in DOMAIN g.nodes THEN g.nodes[n] ELSE EmptyMap],
     edges |-> g.edges \cup {<<u, v>>},
     order |-> g.order
               \o (IF u \in DOMAIN g.nodes THEN <<>> ELSE <<u>>)
               \o (IF v \in DOMAIN g.nodes \cup {u} THEN <<>> ELSE <<v>>)]

\* every dependency gets an edge
AnyNode(dep, graph) == TRUE

\* `if dep in dependency_graph`
KnownNode(dep, graph) == dep \in DOMAIN graph

\* every package is marked as the root
AnyRoot(package, root_package) == TRUE

\* line 356: package.lower() == root_package.lower()
IsRoot(package, root_package) == str_lower(package) = str_lower(root_package)

RECURSIVE AddNodes(_, _, _, _)
\* lines 354-357: the keys in the order the dict yields them
AddNodes(g, graph, todo, root_package) ==
    IF todo = <<>> THEN g
    ELSE LET package == Head(todo)
         IN AddNodes(AddNode(g, package,
                             [category |-> categorize_package(package),
                              is_root |-> IsRoot(package, root_package)]),
                     graph, Tail(todo), root_package)

RECURSIVE AddEdges(_, _, _)
\* lines 360-363
AddEdges(g, graph, todo) ==
    IF todo = {} THEN g
    ELSE LET e == CHOOSE x \in todo : TRUE
         IN AddEdges(IF KnownNode(e[2], graph) THEN AddEdge(g, e[1], e[2]) ELSE g,
                     graph, todo \ {e})

DepPairs(graph) == UNION {{<<p, d>> : d \in graph[p]} : p \in DOMAIN graph}

\* a dict is its mapping and the order of its keys
create_networkx_graph(graph, keys, root_package) ==
    AddEdges(AddNodes(EmptyGraph, graph, keys, root_package),
             graph, DepPairs(graph))

\* package names a caller's mapping may hold as keys or as dependencies
NxNames == {<<"a">>, <<"b">>, <<"A">>}
NxRoots == {<<"a">>, <<"B">>, <<"z">>}

SubsetsUpTo(S, n) == {T \in SUBSET S : Cardinality(T) <= n}

NxGraphs == UNION {[K -> SubsetsUpTo(NxNames, MaxDeps)] : K \in SUBSET NxNames}

\* the orders in which a dict may hold the keys K
KeyOrders(K) ==
    {s \in [1..Cardinality(K) -> K] : \A i, j \in DOMAIN s : i # j => s[i] # s[j]}

\* graphs a caller builds with networkx itself, large enough for the slice of
\* top_packages to cut: nodes n1..nk in that order, edges between the first
\* two and the last two of them
\* visualizer.py line 93: the length of the slice
TopCount == 10

MaxNodes == TopCount + 1

NodeName(i) ==
    <<"n">> \o (IF i >= 10 THEN <<DigitChars[(i \div 10) + 1]>> ELSE <<>>)
            \o <<DigitChars[(i % 10) + 1]>>

EdgeEnds(k) == {NodeName(i) : i \in {1, 2, k - 1, k} \cap 1..k}

DiGraphs ==
    UNION {{[nodes |-> [n \in {NodeName(i) : i \in 1..k} |->
                           [category |-> "utilities", is_root |-> FALSE]],
             edges |-> edges,
             order |-> [i \in 1..k |-> NodeName(i)]] :
               edges \in SubsetsUpTo(EdgeEnds(k) \X EdgeEnds(k), MaxEdges)} :
           k \in 0..MaxNodes}

NxIdle ==
    /\ nx_input = EmptyMap /\ nx_keys = <<>> /\ nx_root = <<>> /\ G = EmptyGraph
    /\ nx_pc = "idle" /\ metrics = <<>>

\* either a mapping for create_networkx_graph, or a graph for
\* calculate_graph_metrics
NxInit ==
    /\ \/ /\ nx_input \in NxGraphs
          /\ nx_keys \in KeyOrders(DOMAIN nx_input)
          /\ nx_root \in NxRoots
          /\ G = EmptyGraph
          /\ nx_pc = "input"
       \/ /\ nx_input = EmptyMap /\ nx_keys = <<>> /\ nx_root = <<>>
          /\ G \in DiGraphs
          /\ nx_pc = "graph"
    /\ metrics = <<>>

CreateNetworkxGraph ==
    /\ nx_pc = "input"
    /\ G' = create_networkx_graph(nx_input, nx_keys, nx_root)
    /\ nx_pc' = "done"
    /\ UNCHANGED <<nx_input, nx_keys, nx_root, metrics>>

----------------------------------------------------------------------------
(* calculate_graph_metrics *)

\* a float, kept as the quotient it is
Fraction(num, den) == [num |-> num, den |-> den]

RECURSIVE SumValues(_, _)
SumValues(f, keys) ==
    IF keys = {} THEN 0
    ELSE LET k == CHOOSE x \in keys : TRUE
         IN f[k] + SumValues(f, keys \ {k})

\* max(degrees) taken without the guard: -1 stands for the ValueError
MaxOrRaise(total_degree) ==
    CHOOSE m \in Range(total_degree) \cup {-1} :
        \A v \in DOMAIN total_degree : total_degree[v] <= m

\* line 88: max(degrees) if degrees else 0
MaxOrZero(total_degree) ==
    IF DOMAIN total_degree # {} THEN -Min({-x : x \in Range(total_degree)}) ELSE 0

\* an earlier item stays ahead only when its degree is higher
StaysAheadIfHigher(earlier, item) == earlier[2] > item[2]

\* sorted(..., reverse=True) is stable: an earlier item of equal or higher
\* degree stays ahead
StaysAhead(earlier, item) == earlier[2] >= item[2]

RECURSIVE Insert(_, _)
Insert(sorted, item) ==
    IF sorted = <<>> THEN <<item>>
    ELSE IF StaysAhead(Head(sorted), item)
         THEN <<Head(sorted)>> \o Insert(Tail(sorted), item)
         ELSE <<item>> \o sorted

RECURSIVE SortedItems(_, _, _)
\* line 93: sorted(total_degree.items(), key=degree, reverse=True); the items
\* come in the order of the nodes
SortedItems(order, total_degree, sorted) ==
    IF order = <<>> THEN sorted
    ELSE SortedItems(Tail(order), total_degree,
                     Insert(sorted, <<Head(order), total_degree[Head(order)]>>))

\* lines 55-101
calculate_graph_metrics(g) ==
    LET nodes == DOMAIN g.nodes
        n == Cardinality(nodes)
        in_degree == [v \in nodes |-> Cardinality({e \in g.edges : e[2] = v})]
        out_degree == [v \in nodes |-> Cardinality({e \in g.edges : e[1] = v})]
        total_degree == [v \in nodes |-> in_degree[v] + out_degree[v]]
        sorted == SortedItems(g.order, total_degree, <<>>)
    IN [degree_centrality |->
            [v \in nodes |-> IF n <= 1 THEN Fraction(1, 1)
                             ELSE Fraction(total_degree[v], n - 1)],
        in_degree |-> in_degree,
        out_degree |-> out_degree,
        total_degree |-> total_degree,
        num_nodes |-> n,
        num_edges |-> Cardinality(g.edges),
        mean_degree |-> IF nodes # {} THEN Fraction(SumValues(total_degree, nodes), n)
                        ELSE Fraction(0, 1),
        max_degree |-> MaxOrZero(total_degree),
        min_degree |-> IF nodes # {} THEN Min(Range(total_degree)) ELSE 0,
        top_packages |-> SubSeq(sorted, 1, Min({Len(sorted), TopCount}))]

CalculateGraphMetrics ==
    /\ nx_pc \in {"done", "graph"}
    /\ metrics' = calculate_graph_metrics(G)
    /\ nx_pc' = "measured"
    /\ UNCHANGED <<nx_input, nx_keys, nx_root, G>>

----------------------------------------------------------------------------
(* create_graph_layout, visualize_dependency_graph,                        *)
(* create_degree_distribution_plot                                         *)

\* the keys of PRESETS (lines 14-43)
PRESETS == {"paper", "poster"}

Completed(created) == [raised |-> "", created |-> created]
Raise(exception, created) == [raised |-> exception, created |-> created]

\* lines 120-127; the positions computed are not modelled
create_graph_layout(layout_type) ==
    IF layout_type \in {"spring", "kamada_kawai"} THEN Completed({})
    ELSE Raise("ValueError", {})

\* output_path.parent.mkdir(parents=True, exist_ok=True)
Mkdir(req) == IF req.parent_exists THEN {} ELSE {"directory"}

\* lines 208-364; the drawing calls between the layout and the save touch the
\* figure in memory only
visualize_dependency_graph(req) ==
    IF req.preset \notin PRESETS THEN Raise("ValueError", {})
    ELSE IF create_graph_layout(req.layout_type).raised # ""
    THEN create_graph_layout(req.layout_type)
    ELSE IF req.format \notin {"png", "svg", "pdf"} THEN Raise("ValueError", Mkdir(req))
    ELSE Completed(Mkdir(req) \cup {"figure"}
                   \cup IF req.has_metadata THEN {"metadata"} ELSE {})

\* lines 367-410: PRESETS[preset] is a plain subscript, and savefig opens the
\* file in a directory that nothing here creates
create_degree_distribution_plot(req) ==
    IF req.preset \notin PRESETS THEN Raise("KeyError", {})
    ELSE IF ~req.parent_exists THEN Raise("FileNotFoundError", {})
    ELSE Completed({"figure"})

VizRequests ==
    [preset : {"paper", "poster", "slides"},
     layout_type : {"spring", "kamada_kawai", "circular"},
     format : {"png", "svg", "pdf", "jpg"},
     parent_exists : BOOLEAN,
     has_metadata : BOOLEAN]

VizIdle ==
    /\ viz_request = <<>> /\ viz_raised = "" /\ viz_created = {} /\ viz_pc = "idle"

VizInit ==
    /\ viz_request \in VizRequests
    /\ viz_raised = "" /\ viz_created = {} /\ viz_pc = "called"

CreateGraphLayout ==
    /\ viz_pc = "called"
    /\ viz_raised' = create_graph_layout(viz_request.layout_type).raised
    /\ viz_created' = create_graph_layout(viz_request.layout_type).created
    /\ viz_pc' = "create_graph_layout"
    /\ UNCHANGED viz_request

VisualizeDependencyGraph ==
    /\ viz_pc = "called"
    /\ viz_raised' = visualize_dependency_graph(viz_request).raised
    /\ viz_created' = visualize_dependency_graph(viz_request).created
    /\ viz_pc' = "visualize_dependency_graph"
    /\ UNCHANGED viz_request

CreateDegreeDistributionPlot ==
    /\ viz_pc = "called"
    /\ viz_raised' = create_degree_distribution_plot(viz_request).raised
    /\ viz_created' = create_degree_distribution_plot(viz_request).created
    /\ viz_pc' = "create_degree_distribution_plot"
    /\ UNCHANGED viz_request

----------------------------------------------------------------------------
(* ParsedTerraformConfig *)

\* the per-kind collections, in the order the dataclass declares them
Kinds == <<"ec2_instances", "security_groups", "albs", "eips", "route53_records",
           "lambda_functions", "cloudwatch_logs", "iam_roles", "iam_policies",
           "target_groups", "subscription_filters">>

KindSet == Range(Kinds)

ResourceType(kind) ==
    CASE kind = "ec2_instances" -> "aws_instance"
      [] kind = "security_groups" -> "aws_security_group"
      [] kind = "albs" -> "aws_lb"
      [] kind = "eips" -> "aws_eip"
      [] kind = "route53_records" -> "aws_route53_record"
      [] kind = "lambda_functions" -> "aws_lambda_function"
      [] kind = "cloudwatch_logs" -> "aws_cloudwatch_log_group"
      [] kind = "iam_roles" -> "aws_iam_role"
      [] kind = "iam_policies" -> "aws_iam_policy"
      [] kind = "target_groups" -> "aws_lb_target_group"
      [] kind = "subscription_filters" -> "aws_cloudwatch_log_subscription_filter"

\* ParsedTerraformConfig(): every collection empty, no locals
EmptyConfig ==
    [ec2_instances |-> <<>>, security_groups |-> <<>>, albs |-> <<>>, eips |-> <<>>,
     route53_records |-> <<>>, lambda_functions |-> <<>>, cloudwatch_logs |-> <<>>,
     iam_roles |-> <<>>, iam_policies |-> <<>>, target_groups |-> <<>>,
     subscription_filters |-> <<>>, tier |-> "infrastructure", locals |-> <<>>]

\* TerraformResource(resource_type=..., name=..., attributes=attrs)
TerraformResource(resource_type, name, attributes) ==
    [resource_type |-> resource_type, name |-> name, attributes |-> attributes,
     dependencies |-> <<>>, is_conditional |-> FALSE, condition |-> <<>>,
     tier |-> "infrastructure"]

get_all_resources(c) ==
    c.ec2_instances \o c.security_groups \o c.albs \o c.eips \o c.route53_records
      \o c.lambda_functions \o c.cloudwatch_logs \o c.iam_roles \o c.iam_policies
      \o c.target_groups

\* the collections get_all_resources concatenates
ListedKinds == KindSet \ {"subscription_filters"}

\* config.<kind>.append(resource)
AppendTo(c, kind, resource) == [c EXCEPT ![kind] = Append(@, resource)]

RECURSIVE SumLen(_, _)
SumLen(c, i) == IF i > Len(Kinds) THEN 0 ELSE Len(c[Kinds[i]]) + SumLen(c, i + 1)

\* resources held by all the per-kind collections together
TotalResources(c) == SumLen(c, 1)

----------------------------------------------------------------------------
(* resolve_variable_references *)

LocalDot == <<"l", "o", "c", "a", "l", ".">>

\* attribute values: a string, or a number (ports)
StrVal(str) == [isstr |-> TRUE, s |-> str, n |-> 0]
IntVal(num) == [isstr |-> FALSE, s |-> <<>>, n |-> num]

\* locals is a dict in insertion order: a sequence of <<name, value>>
LocalKeys(locals) == {locals[i][1] : i \in 1..Len(locals)}

\* config.locals[var_name]
Lookup(locals, var_name) ==
    locals[CHOOSE i \in 1..Len(locals) : locals[i][1] = var_name][2]

RECURSIVE ReplaceLocals(_, _, _)
\* for var_name, var_value in locals.items(): value = value.replace(...)
ReplaceLocals(value, locals, i) ==
    IF i > Len(locals) THEN value
    ELSE ReplaceLocals(str_replace(value, LocalDot \o locals[i][1], locals[i][2]),
                       locals, i + 1)

\* lines 403-407: what attributes[key] holds after the direct replacement
DirectResolve(value, locals) ==
    IF StartsWithAt(value, LocalDot, 1)
         /\ str_replace(value, LocalDot, <<>>) \in LocalKeys(locals)
    THEN Lookup(locals, str_replace(value, LocalDot, <<>>))
    ELSE value

\* lines 401-412: what attributes[key] holds after both passes; the loop of
\* lines 410-412 starts from the unresolved value and overwrites attributes[key]
\* on each of its iterations
ResolveAttribute(v, locals) ==
    IF ~v.isstr THEN v
    ELSE IF locals = <<>> THEN StrVal(DirectResolve(v.s, locals))
         ELSE StrVal(ReplaceLocals(v.s, locals, 1))

\* lines 415-417
ResolveCondition(condition, locals) ==
    IF condition # <<>> THEN ReplaceLocals(condition, locals, 1) ELSE condition

ResolveResource(r, locals) ==
    [r EXCEPT !.attributes = [k \in DOMAIN r.attributes |->
                                 ResolveAttribute(r.attributes[k], locals)],
              !.condition = ResolveCondition(r.condition, locals)]

ResolveList(list, locals) == [i \in 1..Len(list) |-> ResolveResource(list[i], locals)]

\* the resources of get_all_resources() are resolved in place
resolve_variable_references(c) ==
    [k \in DOMAIN c |->
        IF k \in ListedKinds THEN ResolveList(c[k], c.locals) ELSE c[k]]

----------------------------------------------------------------------------
(* Inputs of the resolver *)

nameE == <<"e">>
nameEn == <<"e", "n">>
nameB == <<"b">>

LocalNames == {nameE, nameEn, nameB}
LocalValues == {<<"X">>, <<"Y", "z">>, LocalDot \o nameEn}

Injective(f) == \A i \in DOMAIN f : \A j \in DOMAIN f : i # j => f[i][1] # f[j][1]

LocalsSet == {l \in SeqsUpTo(LocalNames \X LocalValues, MaxLocals) : Injective(l)}

\* "local.e", "local.en", "local.b", "s-local.en-t", "t3"
AttrStrings ==
    {LocalDot \o nameE, LocalDot \o nameEn, LocalDot \o nameB,
     <<"s", "-">> \o LocalDot \o nameEn \o <<"-", "t">>, <<"t", "3">>}

\* "local.en", "local.b == q"
ConditionStrings == {LocalDot \o nameEn, LocalDot \o nameB \o <<" ", "=", "=", " ", "q">>}

\* collections a resolver input places resources in
InputKinds == {"ec2_instances", "target_groups", "subscription_filters"}

\* the collections detect_conditional_resources marks (lines 379-382)
ConditionalKinds == {"ec2_instances", "albs", "route53_records", "lambda_functions",
                     "cloudwatch_logs", "target_groups"}

AttrKey(kind) ==
    CASE kind = "ec2_instances" -> "instance_type"
      [] kind = "subscription_filters" -> "destination_arn"
      [] OTHER -> "protocol"

InputResource(kind, str, cond) ==
    [TerraformResource(ResourceType(kind), "r",
                       IF kind = "target_groups"
                       THEN [k \in {"protocol", "port"} |->
                               IF k = "port" THEN IntVal(80) ELSE StrVal(str)]
                       ELSE [k \in {AttrKey(kind)} |-> StrVal(str)])
     EXCEPT !.is_conditional = cond # <<>>, !.condition = cond]

ResourceDraws ==
    {<<kind, InputResource(kind, str, cond)>> :
        kind \in InputKinds, str \in AttrStrings, cond \in ConditionStrings \cup {<<>>}}

\* a resource outside the marked collections has no condition
ValidDraw(d) == d[2].condition # <<>> => d[1] \in ConditionalKinds

RECURSIVE Place(_, _, _)
Place(c, draws, i) ==
    IF i > Len(draws) THEN c
    ELSE Place(AppendTo(c, draws[i][1], draws[i][2]), draws, i + 1)

TfIdle == config = EmptyConfig /\ parsed = EmptyConfig /\ tf_pc = "idle"

\* a config as the extraction passes leave it: resources placed, locals built
TfInit ==
    /\ \E locals \in LocalsSet :
         \E draws \in SeqsUpTo({d \in ResourceDraws : ValidDraw(d)}, MaxResources) :
            config = [Place(EmptyConfig, draws, 1) EXCEPT !.locals = locals]
    /\ parsed = config
    /\ tf_pc = "parsed"

\* line 279: resolve_variable_references(config)
ResolveVariableReferences ==
    /\ tf_pc = "parsed"
    /\ config' = resolve_variable_references(config)
    /\ tf_pc' = "resolved"
    /\ UNCHANGED parsed

\* ParsedTerraformConfig() at the start of a parse
CfgInit == config = EmptyConfig /\ parsed = EmptyConfig /\ tf_pc = "parsing"

\* one `config.<kind>.append(TerraformResource(...))` of the extraction passes
AppendResource ==
    /\ tf_pc = "parsing"
    /\ TotalResources(config) < MaxAppends
    /\ \E kind \in KindSet :
         config' = AppendTo(config, kind,
                            TerraformResource(ResourceType(kind), "r", EmptyMap))
    /\ UNCHANGED <<parsed, tf_pc>>

----------------------------------------------------------------------------
(* The text of a .tf file *)

\* A file is a sequence of lines, one construct per line:
\*   resource "<type>" "<name>" {      word {      key = raw      }
\* type, name and word are atoms; key and raw are character sequences, raw
\* being the text after `= `. Keys are identifiers and raw holds no brace.
ResourceLine(type, name) ==
    [line |-> "resource", type |-> type, name |-> name, key |-> <<>>, raw |-> <<>>]
OpenLine(word) ==
    [line |-> "open", type |-> "", name |-> word, key |-> <<>>, raw |-> <<>>]
CloseLine ==
    [line |-> "close", type |-> "", name |-> "", key |-> <<>>, raw |-> <<>>]
FieldLine(key, raw) ==
    [line |-> "field", type |-> "", name |-> "", key |-> key, raw |-> raw]

\* the characters of the words the patterns and the inputs spell out
Chars(word) ==
    CASE word = "instance_type" ->
           <<"i", "n", "s", "t", "a", "n", "c", "e", "_", "t", "y", "p", "e">>
      [] word = "ami" -> <<"a", "m", "i">>
      [] word = "vpc_security_group_ids" ->
           <<"v", "p", "c", "_", "s", "e", "c", "u", "r", "i", "t", "y", "_",
             "g", "r", "o", "u", "p", "_", "i", "d", "s">>
      [] word = "iam_instance_profile" ->
           <<"i", "a", "m", "_", "i", "n", "s", "t", "a", "n", "c", "e", "_",
             "p", "r", "o", "f", "i", "l", "e">>
      [] word = "from_port" -> <<"f", "r", "o", "m", "_", "p", "o", "r", "t">>
      [] word = "to_port" -> <<"t", "o", "_", "p", "o", "r", "t">>
      [] word = "protocol" -> <<"p", "r", "o", "t", "o", "c", "o", "l">>
      [] word = "load_balancer_type" ->
           <<"l", "o", "a", "d", "_", "b", "a", "l", "a", "n", "c", "e", "r", "_",
             "t", "y", "p", "e">>
      [] word = "type" -> <<"t", "y", "p", "e">>
      [] word = "name" -> <<"n", "a", "m", "e">>
      [] word = "function_name" ->
           <<"f", "u", "n", "c", "t", "i", "o", "n", "_", "n", "a", "m", "e">>
      [] word = "runtime" -> <<"r", "u", "n", "t", "i", "m", "e">>
      [] word = "role" -> <<"r", "o", "l", "e">>
      [] word = "port" -> <<"p", "o", "r", "t">>
      [] word = "destination_arn" ->
           <<"d", "e", "s", "t", "i", "n", "a", "t", "i", "o", "n", "_", "a", "r", "n">>
      [] word = "log_group_name" ->
           <<"l", "o", "g", "_", "g", "r", "o", "u", "p", "_", "n", "a", "m", "e">>
      [] word = "filter_pattern" ->
           <<"f", "i", "l", "t", "e", "r", "_", "p", "a", "t", "t", "e", "r", "n">>
      [] word = "count" -> <<"c", "o", "u", "n", "t">>
      [] word = "arn" -> <<"a", "r", "n">>

EndsWith(s, suffix) ==
    Len(suffix) <= Len(s) /\ StartsWithAt(s, suffix, Len(s) - Len(suffix) + 1)

NoMatch == [ok |-> FALSE, s |-> <<>>]
Matched(group) == [ok |-> TRUE, s |-> group]

\* index of the first c in s at or after i, 0 when there is none
IndexFrom(s, c, i) ==
    LET hits == {j \in i..Len(s) : s[j] = c}
    IN IF hits = {} THEN 0 ELSE Min(hits)

RECURSIVE TakeWhile(_, _)
\* the longest prefix of s made of characters of `chars`
TakeWhile(s, chars) ==
    IF s # <<>> /\ Head(s) \in chars THEN <<Head(s)>> \o TakeWhile(Tail(s), chars)
    ELSE <<>>

RECURSIVE TakeUntil(_, _)
\* the longest prefix of s holding no character of `stops`
TakeUntil(s, stops) ==
    IF s # <<>> /\ Head(s) \notin stops THEN <<Head(s)>> \o TakeUntil(Tail(s), stops)
    ELSE <<>>

\* the decimal digits, in order: DigitChars[d + 1] is the digit d
RECURSIVE ToInt(_, _)
\* int(digits), most significant digit first
ToInt(digits, acc) ==
    IF digits = <<>> THEN acc
    ELSE ToInt(Tail(digits),
               10 * acc + (CHOOSE d \in 0..9 : DigitChars[d + 1] = Head(digits)))

\* the characters \w matches among those the inputs use
WordChars ==
    {"a", "b", "c", "e", "l", "n", "o", "p", "q", "t", "x", "X", "Y", "z", "_"}
      \cup Range(DigitChars)

RECURSIVE Split(_, _)
\* s.split(c)
Split(s, c) ==
    IF IndexFrom(s, c, 1) = 0 THEN <<s>>
    ELSE <<SubSeq(s, 1, IndexFrom(s, c, 1) - 1)>>
           \o Split(SubSeq(s, IndexFrom(s, c, 1) + 1, Len(s)), c)

RECURSIVE StripChar(_, _)
\* s.strip(c) for a single character c
StripChar(s, c) ==
    IF s # <<>> /\ Head(s) = c THEN StripChar(Tail(s), c)
    ELSE IF s # <<>> /\ s[Len(s)] = c THEN StripChar(SubSeq(s, 1, Len(s) - 1), c)
    ELSE s

RECURSIVE StrippedItems(_)
\* [sg.strip().strip('"') for sg in parts if sg.strip()]
StrippedItems(parts) ==
    IF parts = <<>> THEN <<>>
    ELSE IF str_strip(Head(parts)) # <<>>
         THEN <<StripChar(str_strip(Head(parts)), "\"")>> \o StrippedItems(Tail(parts))
         ELSE StrippedItems(Tail(parts))

\* [^.]+\.([^.]+)\.<attr>
DottedReference(raw, attr) ==
    LET first == TakeUntil(raw, {"."})
        after1 == SubSeq(raw, Len(first) + 2, Len(raw))
        second == TakeUntil(after1, {"."})
        after2 == SubSeq(after1, Len(second) + 1, Len(after1))
    IN IF first # <<>> /\ second # <<>> /\ StartsWithAt(after2, <<".">> \o attr, 1)
       THEN Matched(second) ELSE NoMatch

\* the group a value pattern captures in the text after `=\s*` of a field
MatchValue(pattern, raw) ==
    LET closing == IndexFrom(raw, "\"", 2)
        quoted == raw # <<>> /\ raw[1] = "\"" /\ closing > 0
        digits == TakeWhile(raw, Range(DigitChars))
        token == TakeUntil(raw, {" "})
        word == TakeWhile(SubSeq(raw, Len(LocalDot) + 1, Len(raw)), WordChars)
        bracket == IndexFrom(raw, "]", 2)
    IN CASE pattern = "\"([^\"]+)\"" ->
              IF quoted /\ closing > 2 THEN Matched(SubSeq(raw, 2, closing - 1))
              ELSE NoMatch
         [] pattern = "\"([^\"]*)\"" ->
              IF quoted THEN Matched(SubSeq(raw, 2, closing - 1)) ELSE NoMatch
         [] pattern = "(\\d+)" -> IF digits # <<>> THEN Matched(digits) ELSE NoMatch
         [] pattern = "(\\S+)" -> IF token # <<>> THEN Matched(token) ELSE NoMatch
         [] pattern = "(local\\.\\w+)" ->
              IF StartsWithAt(raw, LocalDot, 1) /\ word # <<>>
              THEN Matched(LocalDot \o word) ELSE NoMatch
         [] pattern = "[^.]+\\.([^.]+)\\.name" -> DottedReference(raw, Chars("name"))
         [] pattern = "[^.]+\\.([^.]+)\\.arn" -> DottedReference(raw, Chars("arn"))
         [] pattern = "\\[([^\\]]+)\\]" ->
              IF raw # <<>> /\ raw[1] = "[" /\ bracket > 2
              THEN Matched(SubSeq(raw, 2, bracket - 1)) ELSE NoMatch
         [] pattern = "(.+?)(?:\\n|$)" -> IF raw # <<>> THEN Matched(raw) ELSE NoMatch

\* re.search(r'<key>\s*=\s*<pattern>', body): the first field line whose key
\* ends with <key> and whose text matches the value pattern
SearchField(body, key, pattern) ==
    LET hits == {i \in 1..Len(body) :
                    /\ body[i].line = "field"
                    /\ EndsWith(body[i].key, Chars(key))
                    /\ MatchValue(pattern, body[i].raw).ok}
    IN IF hits = {} THEN NoMatch ELSE MatchValue(pattern, body[Min(hits)].raw)

\* the line of the `}` that ends the body of the block opened on line i (0 when
\* there is none), for both shapes of block pattern:
\*   \{([^}]+)\}  (lines 122, 144, 158, 166, 184, 204, 254, 322)
\*     the body runs to the first `}`
\*   \{([^}]+(?:\{[^}]*\}[^}]*)*)\}  (lines 81, 114, 220, 236, 360)
\*     the greedy [^}]+ runs to the first `}`; the optional group needs a `{`
\*     there, so it repeats zero times, and the final \} matches that first `}`
BodyEnd(content, i) ==
    LET closes == {j \in (i + 1)..Len(content) : content[j].line = "close"}
    IN IF closes = {} THEN 0 ELSE Min(closes)

RECURSIVE FindBlocks(_, _, _)
\* re.finditer(pattern, content): non-overlapping matches, left to right; a
\* match is [type, name, body]
FindBlocks(content, types, i) ==
    IF i > Len(content) THEN <<>>
    ELSE IF content[i].line = "resource" /\ content[i].type \in types
              /\ BodyEnd(content, i) # 0
         THEN <<[type |-> content[i].type, name |-> content[i].name,
                 body |-> SubSeq(content, i + 1, BodyEnd(content, i) - 1)]>>
                \o FindBlocks(content, types, BodyEnd(content, i) + 1)
         ELSE FindBlocks(content, types, i + 1)

----------------------------------------------------------------------------
(* parse_terraform_file: the extraction passes *)

\* a list attribute (security_groups, ingress_rules)
ListVal(items) == [isstr |-> FALSE, s |-> <<>>, n |-> 0, items |-> items]

\* if m := re.search(...): attrs[name] = m.group(1)
SetIfFound(attrs, name, m) == IF m.ok THEN SetItem(attrs, name, StrVal(m.s)) ELSE attrs

\* if m := re.search(...): attrs[name] = int(m.group(1))
SetIntIfFound(attrs, name, m) ==
    IF m.ok THEN SetItem(attrs, name, IntVal(ToInt(m.s, 0))) ELSE attrs

\* lines 86-105
InstanceAttrs(body) ==
    LET quoted == SearchField(body, "instance_type", "\"([^\"]+)\"")
        a1 == IF quoted.ok THEN SetIfFound(EmptyMap, "instance_type", quoted)
              ELSE SetIfFound(EmptyMap, "instance_type",
                              SearchField(body, "instance_type", "(local\\.\\w+)"))
        a2 == SetIfFound(a1, "ami", SearchField(body, "ami", "\"([^\"]+)\""))
        sg == SearchField(body, "vpc_security_group_ids", "\\[([^\\]]+)\\]")
        a3 == IF sg.ok
              THEN SetItem(a2, "security_groups",
                           ListVal(StrippedItems(Split(sg.s, ","))))
              ELSE a2
    IN SetIfFound(a3, "iam_role",
                  SearchField(body, "iam_instance_profile", "[^.]+\\.([^.]+)\\.name"))

\* lines 125-132: the rule of one `ingress { ... }` match
IngressRule(ing_body) ==
    SetIfFound(
        SetIntIfFound(
            SetIntIfFound(EmptyMap, "from_port",
                          SearchField(ing_body, "from_port", "(\\d+)")),
            "to_port", SearchField(ing_body, "to_port", "(\\d+)")),
        "protocol", SearchField(ing_body, "protocol", "\"([^\"]+)\""))

RECURSIVE IngressRules(_, _)
\* lines 122-133: re.finditer(r'ingress\s*\{([^}]+)\}', body)
IngressRules(body, i) ==
    IF i > Len(body) THEN <<>>
    ELSE IF body[i].line = "open" /\ body[i].name = "ingress"
              /\ BodyEnd(body, i) # 0
         THEN <<IngressRule(SubSeq(body, i + 1, BodyEnd(body, i) - 1))>>
                \o IngressRules(body, BodyEnd(body, i) + 1)
         ELSE IngressRules(body, i + 1)

\* the attrs each extraction pass builds from a block body
AttrsOf(kind, body) ==
    LET named(attribute) ==
            SetIfFound(EmptyMap, attribute, SearchField(body, "name", "\"([^\"]+)\""))
    IN CASE kind = "ec2_instances" -> InstanceAttrs(body)
         [] kind = "security_groups" ->
              IF IngressRules(body, 1) # <<>>
              THEN SetItem(EmptyMap, "ingress_rules", ListVal(IngressRules(body, 1)))
              ELSE EmptyMap
         [] kind = "albs" ->
              SetIfFound(EmptyMap, "type",
                         SearchField(body, "load_balancer_type", "\"([^\"]+)\""))
         [] kind = "eips" -> EmptyMap
         [] kind = "route53_records" ->
              SetIfFound(SetIfFound(EmptyMap, "record_type",
                                    SearchField(body, "type", "\"([^\"]+)\"")),
                         "domain", SearchField(body, "name", "\"([^\"]+)\""))
         [] kind = "lambda_functions" ->
              SetIfFound(
                  SetIfFound(
                      SetIfFound(EmptyMap, "function_name",
                                 SearchField(body, "function_name", "\"([^\"]+)\"")),
                      "runtime", SearchField(body, "runtime", "\"([^\"]+)\"")),
                  "iam_role", SearchField(body, "role", "[^.]+\\.([^.]+)\\.arn"))
         [] kind = "cloudwatch_logs" -> named("log_group_name")
         [] kind = "iam_roles" -> named("role_name")
         [] kind = "iam_policies" -> named("policy_name")
         [] kind = "target_groups" ->
              SetIfFound(SetIntIfFound(EmptyMap, "port",
                                       SearchField(body, "port", "(\\d+)")),
                         "protocol", SearchField(body, "protocol", "\"([^\"]+)\""))
         [] kind = "subscription_filters" ->
              SetIfFound(
                  SetIfFound(
                      SetIfFound(EmptyMap, "destination_arn",
                                 SearchField(body, "destination_arn", "(\\S+)")),
                      "log_group_name", SearchField(body, "log_group_name", "(\\S+)")),
                  "filter_pattern", SearchField(body, "filter_pattern", "\"([^\"]*)\""))

\* one extraction pass: a TerraformResource appended per match of the kind's
\* resource pattern
ExtractKind(content, kind) ==
    LET blocks == FindBlocks(content, {ResourceType(kind)}, 1)
    IN [i \in 1..Len(blocks) |->
           TerraformResource(ResourceType(kind), blocks[i].name,
                             AttrsOf(kind, blocks[i].body))]

\* locals_dict[name] = value: an existing key keeps its place
DictSet(dict, name, value) ==
    IF name \in LocalKeys(dict)
    THEN [i \in 1..Len(dict) |-> IF dict[i][1] = name THEN <<name, value>> ELSE dict[i]]
    ELSE Append(dict, <<name, value>>)

\* (\S+)\s*==\s*"([^"]+)" after `=\s*`, and the value line 309 stores for it
Comparison(raw) ==
    LET lhs == TakeUntil(raw, {" "})
        rest == LStrip(SubSeq(raw, Len(lhs) + 1, Len(raw)))
        rhs == MatchValue("\"([^\"]+)\"", LStrip(SubSeq(rest, 3, Len(rest))))
    IN IF lhs # <<>> /\ StartsWithAt(rest, <<"=", "=">>, 1) /\ rhs.ok
       THEN Matched(lhs \o <<" ", "=", "=", " ", "\"">> \o rhs.s \o <<"\"">>)
       ELSE NoMatch

RECURSIVE Assignments(_, _, _, _)
\* lines 300-303 (comparisons = FALSE) and 306-309 (comparisons = TRUE): the
\* assignments found anywhere in the file, stored in order
Assignments(content, dict, comparisons, i) ==
    LET m == IF comparisons THEN Comparison(content[i].raw)
             ELSE MatchValue("\"([^\"]+)\"", content[i].raw)
    IN IF i > Len(content) THEN dict
       ELSE IF content[i].line = "field" /\ m.ok
            THEN Assignments(content, DictSet(dict, content[i].key, m.s),
                             comparisons, i + 1)
            ELSE Assignments(content, dict, comparisons, i + 1)

parse_locals_block(content) ==
    Assignments(content, Assignments(content, <<>>, FALSE, 1), TRUE, 1)

\* lines 78-275: the config after the extraction passes
ExtractResources(content) ==
    [k \in DOMAIN EmptyConfig |->
        IF k \in KindSet THEN ExtractKind(content, k)
        ELSE IF k = "locals" THEN parse_locals_block(content)
        ELSE EmptyConfig[k]]

----------------------------------------------------------------------------
(* detect_conditional_resources and parse_terraform_file *)

\* lines 368-376: the condition of a block, when its count is a ternary
ConditionOf(body) ==
    LET count_match == SearchField(body, "count", "(.+?)(?:\\n|$)")
        count_expr == str_strip(count_match.s)
    IN IF count_match.ok /\ Contains(count_expr, <<"?">>) /\ Contains(count_expr, <<":">>)
       THEN Matched(str_strip(TakeUntil(count_expr, {"?"})))
       ELSE NoMatch

\* lines 379-386: the resources of that type and name are marked, in the six
\* collections the loop searches
Mark(c, type, name, condition) ==
    [k \in DOMAIN c |->
        IF k \in ConditionalKinds
        THEN [i \in 1..Len(c[k]) |->
                 IF c[k][i].resource_type = type /\ c[k][i].name = name
                 THEN [c[k][i] EXCEPT !.is_conditional = TRUE, !.condition = condition]
                 ELSE c[k][i]]
        ELSE c[k]]

RECURSIVE MarkAll(_, _, _)
\* lines 362-386, over the matches of resource_pattern
MarkAll(c, blocks, i) ==
    IF i > Len(blocks) THEN c
    ELSE IF ConditionOf(blocks[i].body).ok
         THEN MarkAll(Mark(c, blocks[i].type, blocks[i].name,
                           ConditionOf(blocks[i].body).s), blocks, i + 1)
         ELSE MarkAll(c, blocks, i + 1)

detect_conditional_resources(content, c) ==
    MarkAll(c, FindBlocks(content, {content[i].type : i \in 1..Len(content)}, 1), 1)

\* lines 78-281 on the text read from the file
parse_terraform_file(content) ==
    resolve_variable_references(
        detect_conditional_resources(content, ExtractResources(content)))

----------------------------------------------------------------------------
(* parse_directory *)

\* the directory check of line 434 without its is_dir() half
DirectoryAbsent(d) == ~d.exists

\* line 434: not directory_path.exists() or not directory_path.is_dir()
DirectoryMissing(d) == ~d.exists \/ ~d.is_dir

\* list.extend written the wrong way round
ExtendFront(list, more) == more \o list

\* combined_config.<kind>.extend(file_config.<kind>)
Extend(list, more) == list \o more

RECURSIVE DictUpdate(_, _, _)
\* combined_config.locals.update(file_config.locals)
DictUpdate(dict, other, i) ==
    IF i > Len(other) THEN dict
    ELSE DictUpdate(DictSet(dict, other[i][1], other[i][2]), other, i + 1)

\* lines 446-461: one iteration of the loop body
MergeFile(combined_config, file_config) ==
    [k \in DOMAIN combined_config |->
        IF k \in KindSet THEN Extend(combined_config[k], file_config[k])
        ELSE IF k = "locals" THEN DictUpdate(combined_config.locals, file_config.locals, 1)
        ELSE combined_config[k]]

RECURSIVE MergeFiles(_, _, _)
\* lines 443-461 over files that parse
MergeFiles(combined_config, tf_files, i) ==
    IF i > Len(tf_files) THEN combined_config
    ELSE MergeFiles(MergeFile(combined_config, parse_terraform_file(tf_files[i].content)),
                    tf_files, i + 1)

----------------------------------------------------------------------------
(* Inputs of the parser: files and directories *)

Quoted(s) == <<"\"">> \o s \o <<"\"">>

\* the field of each kind the inputs carry
FieldOf(kind) ==
    CASE kind = "ec2_instances" -> FieldLine(Chars("instance_type"), Quoted(<<"t", "2">>))
      [] kind = "albs" -> FieldLine(Chars("load_balancer_type"), Quoted(<<"a", "p">>))
      [] kind = "route53_records" -> FieldLine(Chars("type"), Quoted(<<"a">>))
      [] kind = "lambda_functions" -> FieldLine(Chars("runtime"), Quoted(<<"p", "y">>))
      [] kind = "cloudwatch_logs" -> FieldLine(Chars("name"), Quoted(<<"l", "g">>))
      [] kind = "iam_roles" -> FieldLine(Chars("name"), Quoted(<<"r", "o">>))
      [] kind = "iam_policies" -> FieldLine(Chars("name"), Quoted(<<"p", "o">>))
      [] kind = "target_groups" -> FieldLine(Chars("port"), <<"8", "0">>)
      [] kind = "subscription_filters" ->
           FieldLine(Chars("filter_pattern"), Quoted(<<"p">>))
      [] OTHER -> FieldLine(<<"x">>, <<"1">>)

\* locals { e = "X" }
LocalsBlock == <<OpenLine("locals"), FieldLine(nameE, Quoted(<<"X">>)), CloseLine>>

Shapes == {"plain", "counted", "counted_local", "count_number", "nested_first",
           "nested_last"}

\* resource "<type>" "r" { ... } in one of the shapes; the ternary count is
\* `local.e ? 1 : 0`, the nested block is `tags { x = 1 }`
BlockText(kind, shape) ==
    LET header == <<ResourceLine(ResourceType(kind), "r")>>
        field == <<FieldOf(kind)>>
        count == <<FieldLine(Chars("count"),
                             LocalDot \o <<"e", " ", "?", " ", "1", " ", ":", " ", "0">>)>>
        nested == <<OpenLine("tags"), FieldLine(<<"x">>, <<"1">>), CloseLine>>
    IN CASE shape = "plain" -> header \o field \o <<CloseLine>>
         [] shape = "counted" -> header \o count \o field \o <<CloseLine>>
         [] shape = "counted_local" ->
              LocalsBlock \o header \o count \o field \o <<CloseLine>>
         [] shape = "count_number" ->
              header \o <<FieldLine(Chars("count"), <<"2">>)>> \o field \o <<CloseLine>>
         [] shape = "nested_first" -> header \o nested \o field \o <<CloseLine>>
         [] shape = "nested_last" -> header \o field \o nested \o <<CloseLine>>

RECURSIVE IngressBlocks(_, _)
\* sub-blocks i..n; the i-th is
\*   ingress { from_port = i  to_port = i0  protocol = "t" (i odd) or "u" }
IngressBlocks(i, n) ==
    IF i > n THEN <<>>
    ELSE <<OpenLine("ingress"),
           FieldLine(Chars("from_port"), <<DigitChars[i + 1]>>),
           FieldLine(Chars("to_port"), <<DigitChars[i + 1], "0">>),
           FieldLine(Chars("protocol"), Quoted(IF i % 2 = 1 THEN <<"t">> ELSE <<"u">>)),
           CloseLine>> \o IngressBlocks(i + 1, n)

\* a security group with n ingress sub-blocks
SecurityGroupText(n) ==
    <<ResourceLine("aws_security_group", "r")>> \o IngressBlocks(1, n) \o <<CloseLine>>

\* an instance whose type is a local: locals { e = "X" } ... instance_type = local.e
LocalInstanceText ==
    LocalsBlock \o <<ResourceLine("aws_instance", "r"),
                     FieldLine(Chars("instance_type"), LocalDot \o nameE), CloseLine>>

\* a resource whose only field is `<key> = local.e`, with no locals block
ReferringText(type, key) ==
    <<ResourceLine(type, "r"), FieldLine(Chars(key), LocalDot \o nameE), CloseLine>>

\* locals { q = x == "a" } next to an instance and a lambda function that carry
\* every field their extraction passes read
FullText ==
    <<OpenLine("locals"),
      FieldLine(<<"q">>, <<"x", " ", "=", "=", " ">> \o Quoted(<<"a">>)),
      CloseLine,
      ResourceLine("aws_instance", "r"),
      FieldLine(Chars("ami"), Quoted(<<"a", "1">>)),
      FieldLine(Chars("instance_type"), Quoted(<<"t", "2">>)),
      FieldLine(Chars("vpc_security_group_ids"),
                <<"[", "a", ",", " ">> \o Quoted(<<"b">>) \o <<"]">>),
      FieldLine(Chars("iam_instance_profile"), <<"a", ".", "p", ".">> \o Chars("name")),
      CloseLine,
      ResourceLine("aws_lambda_function", "f"),
      FieldLine(Chars("function_name"), Quoted(<<"f", "n">>)),
      FieldLine(Chars("role"), <<"a", ".", "b", ".">> \o Chars("arn")),
      CloseLine>>

FileTexts ==
    {BlockText(kind, shape) : kind \in KindSet, shape \in Shapes}
      \cup {SecurityGroupText(n) : n \in 1..MaxIngress}
      \cup {LocalInstanceText, FullText, <<>>}
      \cup {LocalsBlock \o ReferringText("aws_cloudwatch_log_subscription_filter", key) :
               key \in {"destination_arn", "log_group_name"}}

\* a path: a file that reads as text, no file, a file read_text fails on
File(content) == [exists |-> TRUE, readable |-> TRUE, content |-> content]
MissingFile == [exists |-> FALSE, readable |-> FALSE, content |-> <<>>]
UndecodableFile == [exists |-> TRUE, readable |-> FALSE, content |-> <<>>]

\* the files of a directory: two roles naming the same local, a filter next to
\* an instance, a file without resources, a file that cannot be decoded, a
\* file that defines local e, a file that refers to it
DirectoryFiles ==
    {File(<<ResourceLine("aws_iam_role", "r1"),
            FieldLine(Chars("name"), Quoted(<<"X">>)), CloseLine>>),
     File(<<ResourceLine("aws_iam_role", "r2"),
            FieldLine(Chars("name"), Quoted(<<"Y">>)), CloseLine>>),
     File(BlockText("subscription_filters", "plain")
            \o BlockText("ec2_instances", "counted")),
     File(<<>>),
     UndecodableFile,
     File(LocalsBlock),
     File(ReferringText("aws_instance", "instance_type"))}

\* a directory with its *.tf files in glob order, no such path, a plain file
Directory(tf_files) == [exists |-> TRUE, is_dir |-> TRUE, tf_files |-> tf_files]
MissingDirectory == [exists |-> FALSE, is_dir |-> FALSE, tf_files |-> <<>>]
NotADirectory == [exists |-> TRUE, is_dir |-> FALSE, tf_files |-> <<>>]

ParseIdle ==
    /\ tf_file = MissingFile /\ directory = MissingDirectory
    /\ detected = EmptyConfig /\ returned = EmptyConfig /\ raised = ""
    /\ parse_pc = "idle"

\* a call of parse_terraform_file or of parse_directory is about to start
ParseInit ==
    /\ \/ /\ tf_file \in {File(content) : content \in FileTexts}
                            \cup {MissingFile, UndecodableFile}
          /\ directory = MissingDirectory /\ parse_pc = "file"
       \/ /\ directory \in {Directory(tf_files) :
                               tf_files \in SeqsUpTo(DirectoryFiles, MaxFiles)}
                             \cup {MissingDirectory, NotADirectory}
          /\ tf_file = MissingFile /\ parse_pc = "directory"
    /\ detected = EmptyConfig /\ returned = EmptyConfig /\ raised = ""

\* parse_terraform_file(file_path); `detected` keeps the config as
\* detect_conditional_resources leaves it, before the references are resolved
ParseTerraformFile ==
    /\ parse_pc = "file"
    /\ parse_pc' = "file_done"
    /\ IF ~tf_file.exists
       THEN raised' = "FileNotFoundError" /\ UNCHANGED <<detected, returned>>
       ELSE IF ~tf_file.readable
       THEN raised' = "ValueError" /\ UNCHANGED <<detected, returned>>
       ELSE /\ detected' = detect_conditional_resources(
                               tf_file.content, ExtractResources(tf_file.content))
            /\ returned' = parse_terraform_file(tf_file.content)
            /\ raised' = ""
    /\ UNCHANGED <<tf_file, directory>>

\* parse_directory(directory_path); a file that fails to read raises ValueError
\* at line 76, re-raised at line 464
ParseDirectory ==
    /\ parse_pc = "directory"
    /\ parse_pc' = "directory_done"
    /\ IF DirectoryMissing(directory)
       THEN raised' = "FileNotFoundError" /\ UNCHANGED returned
       ELSE IF directory.tf_files = <<>>
       THEN raised' = "ValueError" /\ UNCHANGED returned
       ELSE IF \E i \in 1..Len(directory.tf_files) : ~directory.tf_files[i].readable
       THEN raised' = "ValueError" /\ UNCHANGED returned
       ELSE /\ returned' = MergeFiles(EmptyConfig, directory.tf_files, 1)
            /\ raised' = ""
    /\ UNCHANGED <<tf_file, directory, detected>>

----------------------------------------------------------------------------
(* Specifications *)

Init == BuildInit /\ NxIdle /\ TfIdle /\ ParseIdle /\ NormIdle /\ CacheInit /\ VizIdle /\ FetchIdle

Next ==
    \/ SkipVisited /\ UNCHANGED <<nvars, tvars, pvars, svars, cvars, zvars, fvars>>
    \/ SkipDepth /\ UNCHANGED <<nvars, tvars, pvars, svars, cvars, zvars, fvars>>
    \/ Visit /\ UNCHANGED <<nvars, tvars, pvars, svars, cvars, zvars, fvars>>
    \/ FetchNone /\ UNCHANGED <<nvars, tvars, pvars, svars, cvars, zvars, fvars>>
    \/ FetchOk /\ UNCHANGED <<nvars, tvars, pvars, svars, cvars, zvars, fvars>>
    \/ Return /\ UNCHANGED <<nvars, tvars, pvars, svars, cvars, zvars, fvars>>

Spec == Init /\ [][Next]_vars

\* the loop is sequential code: whenever a step is possible it is taken
LiveSpec == Spec /\ WF_vars(Next)

NxSpecInit == BuildIdle /\ NxInit /\ TfIdle /\ ParseIdle /\ NormIdle /\ CacheInit /\ VizIdle /\ FetchIdle
NxNext ==
    \/ CreateNetworkxGraph /\ UNCHANGED <<bvars, tvars, pvars, svars, cvars, zvars, fvars>>
    \/ CalculateGraphMetrics /\ UNCHANGED <<bvars, tvars, pvars, svars, cvars, zvars, fvars>>
NxSpec == NxSpecInit /\ [][NxNext]_vars

TfSpecInit == BuildIdle /\ NxIdle /\ TfInit /\ ParseIdle /\ NormIdle /\ CacheInit /\ VizIdle /\ FetchIdle
TfNext == ResolveVariableReferences /\ UNCHANGED <<bvars, nvars, pvars, svars, cvars, zvars, fvars>>
TfSpec == TfSpecInit /\ [][TfNext]_vars

CfgSpecInit == BuildIdle /\ NxIdle /\ CfgInit /\ ParseIdle /\ NormIdle /\ CacheInit /\ VizIdle /\ FetchIdle
CfgNext == AppendResource /\ UNCHANGED <<bvars, nvars, pvars, svars, cvars, zvars, fvars>>
CfgSpec == CfgSpecInit /\ [][CfgNext]_vars

ParseSpecInit == BuildIdle /\ NxIdle /\ TfIdle /\ ParseInit /\ NormIdle /\ CacheInit /\ VizIdle /\ FetchIdle
ParseNext ==
    \/ ParseTerraformFile /\ UNCHANGED <<bvars, nvars, tvars, svars, cvars, zvars, fvars>>
    \/ ParseDirectory /\ UNCHANGED <<bvars, nvars, tvars, svars, cvars, zvars, fvars>>
ParseSpec == ParseSpecInit /\ [][ParseNext]_vars

NormSpecInit == BuildIdle /\ NxIdle /\ TfIdle /\ ParseIdle /\ NormInit /\ CacheInit /\ VizIdle /\ FetchIdle
NormNext == NormalizePackageName /\ UNCHANGED <<bvars, nvars, tvars, pvars, cvars, zvars, fvars>>
NormSpec == NormSpecInit /\ [][NormNext]_vars

CacheSpecInit == BuildIdle /\ NxIdle /\ TfIdle /\ ParseIdle /\ NormIdle /\ CacheInit /\ VizIdle /\ FetchIdle
CacheNext ==
    LoadOrBuildDependencyGraph /\ UNCHANGED <<bvars, nvars, tvars, pvars, svars, zvars, fvars>>
CacheSpec == CacheSpecInit /\ [][CacheNext]_vars

VizSpecInit == BuildIdle /\ NxIdle /\ TfIdle /\ ParseIdle /\ NormIdle /\ CacheInit /\ VizInit /\ FetchIdle
VizNext ==
    \/ CreateGraphLayout /\ UNCHANGED <<bvars, nvars, tvars, pvars, svars, cvars, fvars>>
    \/ VisualizeDependencyGraph /\ UNCHANGED <<bvars, nvars, tvars, pvars, svars, cvars, fvars>>
    \/ CreateDegreeDistributionPlot /\ UNCHANGED <<bvars, nvars, tvars, pvars, svars, cvars, fvars>>
VizSpec == VizSpecInit /\ [][VizNext]_vars

FetchSpecInit == BuildIdle /\ NxIdle /\ TfIdle /\ ParseIdle /\ NormIdle /\ CacheInit /\ VizIdle /\ FetchInit
FetchNext ==
    \/ RequestsGet /\ UNCHANGED <<bvars, nvars, tvars, pvars, svars, cvars, zvars>>
    \/ Backoff /\ UNCHANGED <<bvars, nvars, tvars, pvars, svars, cvars, zvars>>
    \/ GiveUp /\ UNCHANGED <<bvars, nvars, tvars, pvars, svars, cvars, zvars>>
    \/ FallThrough /\ UNCHANGED <<bvars, nvars, tvars, pvars, svars, cvars, zvars>>
FetchSpec == FetchSpecInit /\ [][FetchNext]_vars

----------------------------------------------------------------------------
(* Claims about build_dependency_graph *)

pkgA == <<"a">>
pkgB == <<"b">>
pkgC == <<"c">>
pkgD == <<"d">>

Keys(g) == DOMAIN g

\* C1: with max_depth = 1, the single root A and A -> {B, C}, the returned
\* graph has keys exactly {A, B, C}, graph[A] = {B, C}, graph[B] = {} and D is
\* neither fetched nor a key.
C1_DepthOneKeepsChildren ==
    (/\ pc = "done" /\ max_depth = 1 /\ root_dependencies = <<pkgA>>
     /\ pkgA \in Keys(dependency_graph)
     /\ dependency_graph[pkgA] = {pkgB, pkgC})
    => (/\ Keys(dependency_graph) = {pkgA, pkgB, pkgC}
        /\ dependency_graph[pkgB] = {}
        /\ pkgD \notin FetchedNames
        /\ pkgD \notin Keys(dependency_graph))

\* C2: the fetcher is invoked at most once per normalized name; the name is in
\* the visited set when its fetch is made.
C2_FetchAtMostOnce ==
    /\ \A n \in FetchedNames : NumFetches(n) <= 1
    /\ FetchedNames \subseteq visited
    /\ pc = "fetch" => (pkg_name \in visited /\ pkg_name \notin FetchedNames)

\* two roots that normalize to one name, fetched once, run finished
C2_Witness ==
    /\ pc = "done" /\ Len(root_dependencies) = 2
    /\ root_dependencies[1] # root_dependencies[2]
    /\ normalize_package_name(root_dependencies[1])
         = normalize_package_name(root_dependencies[2])
    /\ NumFetches(normalize_package_name(root_dependencies[1])) = 1

EnqueuedNames == {e[1] : e \in enqueued}

\* names put on the queue at a depth the bound lets through
EnqueuedBelowBound == {e[1] : e \in {x \in enqueued : ~(max_depth > 0 /\ x[2] >= max_depth)}}

\* C3 as stated: on return, the number of fetches equals the number of distinct
\* normalized names ever placed on the queue.
C3_FetchesEqualEnqueued ==
    pc = "done" => Len(fetch_log) = Cardinality(EnqueuedNames)

\* C3 amended: on return, the number of fetches equals the number of distinct
\* normalized names placed on the queue at a depth below the bound (all of them
\* when max_depth = 0), and never exceeds the number of names enqueued.
C3_FetchesEqualEnqueuedBelowBound ==
    pc = "done" =>
        /\ Len(fetch_log) = Cardinality(EnqueuedBelowBound)
        /\ Len(fetch_log) <= Cardinality(EnqueuedNames)
        /\ max_depth = 0 => Len(fetch_log) = Cardinality(EnqueuedNames)

\* a finished bounded run that fetched something and pruned something
C3_Witness ==
    /\ pc = "done" /\ max_depth > 0 /\ Len(fetch_log) >= 1
    /\ EnqueuedNames \ FetchedNames # {}

\* C4: the traversal terminates: the queue empties and the graph is returned.
C4_Terminates == <>(pc = "done")

\* a finished unbounded run over a registry with a cycle or a self-dependency
C4_Witness ==
    /\ pc = "done" /\ max_depth = 0
    /\ \E p \in Keys(dependency_graph) :
         \/ p \in dependency_graph[p]
         \/ \E q \in Keys(dependency_graph) \ {p} :
              p \in dependency_graph[q] /\ q \in dependency_graph[p]

\* C5: a fetch that returns not-found or failure records the package with the
\* empty set, enqueues nothing, leaves the other recorded packages alone and the
\* loop goes on with the queue as it was.
C5_FailedFetchIsLeaf ==
    [][(pc = "fetch" /\ pc' # "fetch" /\ fetch_result' \in NoneOutcomes)
       => (/\ Keys(dependency_graph') = Keys(dependency_graph) \cup {pkg_name}
           /\ dependency_graph'[pkg_name] = {}
           /\ \A k \in Keys(dependency_graph) \ {pkg_name} :
                dependency_graph'[k] = dependency_graph[k]
           /\ to_process' = to_process
           /\ enqueued' = enqueued
           /\ pc' = "loop")]_vars

\* a fetch has just failed after an earlier one succeeded, the failed package
\* is recorded as a leaf and an unvisited item is still waiting in the queue
C5_Witness ==
    /\ pc = "loop" /\ fetch_result = "failed" /\ Len(fetch_log) >= 2
    /\ dependency_graph[pkg_name] = {}
    /\ \E i \in 1..Len(to_process) :
         normalize_package_name(to_process[i][1]) \notin visited

\* C17: _normalize_package_name is idempotent, and its result never contains
\* an upper-case letter, an underscore, leading or trailing whitespace, or any
\* of the characters > = < @ [.
C17_NormalizeIdempotentAndClean ==
    norm_pc = "returned" =>
        /\ normalize_package_name(normalized) = normalized
        /\ \A i \in 1..Len(normalized) :
              normalized[i] \notin {"A", "B", "C", "D", "_", ">", "=", "<", "@", "["}
        /\ normalized # <<>> =>
              /\ normalized[1] \notin {" ", "\t"}
              /\ normalized[Len(normalized)] \notin {" ", "\t"}

C17_Witness ==
    /\ norm_pc = "returned"
    /\ specifier = <<"A", "_", ">">>
    /\ normalized = <<"a", "-">>

\* C27: with max_depth = 0, whenever the loop is at its head or has ended the
\* keys of the graph are the visited names; when it has ended every
\* dependency of every key is itself a key and every normalized root has been
\* visited, whatever the fetches returned.
C27_UnlimitedGraphIsClosed ==
    max_depth = 0 =>
        /\ pc \in {"loop", "done"} => DOMAIN dependency_graph = visited
        /\ pc = "done" =>
              /\ \A p \in DOMAIN dependency_graph :
                    \A d \in dependency_graph[p] : d \in DOMAIN dependency_graph
              /\ \A i \in 1..Len(root_dependencies) :
                    normalize_package_name(root_dependencies[i]) \in visited

C27_Witness ==
    /\ pc = "done" /\ max_depth = 0
    /\ root_dependencies = <<pkgA>>
    /\ dependency_graph = (pkgA :> {pkgC}) @@ (pkgC :> {pkgA})

RECURSIVE ReachWithin(_)
\* the names at most k dependency steps from the roots, over the dependency
\* sets recorded so far
ReachWithin(k) ==
    IF k = 0
    THEN {normalize_package_name(root_dependencies[i]) : i \in 1..Len(root_dependencies)}
    ELSE LET near == ReachWithin(k - 1)
         IN near \cup UNION {dependency_graph[q] : q \in near \cap DOMAIN dependency_graph}

Distance(p) == Min({k \in 0..Cardinality(DOMAIN dependency_graph) : p \in ReachWithin(k)})

\* C28: the depths in the work queue never decrease from head to tail and
\* none is below the depth of the item being fetched; fetches are made in
\* non-decreasing depth order; every fetch is made at the shortest distance
\* of the package from the roots; a package dropped at the depth bound is not
\* fetched, and its shortest distance is not below the depth it was dropped at.
C28_BreadthFirstDepths ==
    /\ \A i, j \in 1..Len(to_process) : i < j => to_process[i][2] <= to_process[j][2]
    /\ pc = "fetch" => \A i \in 1..Len(to_process) : depth <= to_process[i][2]
    /\ \A i, j \in 1..Len(fetch_log) : i < j => fetch_log[i][2] <= fetch_log[j][2]
    /\ \A i \in 1..Len(fetch_log) : fetch_log[i][2] = Distance(fetch_log[i][1])
    /\ \A s \in skipped :
         /\ s[1] \notin visited
         /\ Distance(s[1]) >= s[2]

C28_Witness ==
    /\ pc = "done" /\ max_depth = 2
    /\ fetch_log = <<<<pkgA, 0>>, <<pkgB, 1>>>>
    /\ skipped = {<<pkgC, 2>>}

\* C24: whenever build_dependency_graph starts a fetch after an earlier one,
\* the rate-limit delay has been taken since that earlier fetch returned,
\* whatever it returned.
C24_DelayBetweenSuccessiveFetches ==
    (pc = "fetch" /\ fetch_log # <<>>) => slept

----------------------------------------------------------------------------
(* Claims about fetch_pypi_metadata *)

Gets == {i \in 1..Len(fp_log) : fp_log[i].kind = "get"}
Sleeps == {i \in 1..Len(fp_log) : fp_log[i].kind = "sleep"}
Failed(entry) == entry.kind = "get" /\ entry.response \notin {"200", "404"}

\* C23: fetch_pypi_metadata with retries = N makes at most N requests; a 404
\* and a success return at once, with no retry and no wait after them; a
\* failed attempt i < N - 1 is followed by a wait of 2^i and then by attempt
\* i + 1; the N-th failed attempt is followed by no wait and the function
\* returns.
C23_RetriesWithExponentialBackoff ==
    /\ Cardinality(Gets) <= retries
    /\ \A i \in Gets :
         /\ fp_log[i].attempt < retries
         /\ fp_log[i].response \in {"200", "404"} =>
               /\ i = Len(fp_log)
               /\ fp_pc = "returned"
               /\ fp_result = IF fp_log[i].response = "200" THEN "metadata" ELSE "None"
         /\ (Failed(fp_log[i]) /\ fp_log[i].attempt < retries - 1 /\ i < Len(fp_log)) =>
               /\ fp_log[i + 1] = Sleep(fp_log[i].attempt, 2 ^ fp_log[i].attempt)
               /\ i + 1 < Len(fp_log) =>
                     fp_log[i + 2].kind = "get" /\ fp_log[i + 2].attempt = fp_log[i].attempt + 1
         /\ (Failed(fp_log[i]) /\ fp_log[i].attempt = retries - 1) => i = Len(fp_log)
    /\ \A i \in Sleeps : i > 1 /\ Failed(fp_log[i - 1])
    /\ fp_pc = "returned" =>
         /\ Len(fp_log) > 0 => fp_log[Len(fp_log)].kind = "get"
         /\ (Len(fp_log) > 0 /\ Failed(fp_log[Len(fp_log)])) =>
               /\ fp_result = "None"
               /\ Cardinality(Gets) = retries
               /\ Cardinality(Sleeps) = retries - 1

C23_Witness ==
    /\ fp_pc = "returned" /\ retries = 3 /\ fp_result = "None"
    /\ fp_log = <<Get(0, "500"), Sleep(0, 1), Get(1, "timeout"), Sleep(1, 2),
                  Get(2, "500")>>

----------------------------------------------------------------------------
(* Claims about load_or_build_dependency_graph *)

\* C18: once a build has written the cache file, a later call with the file
\* present and force_refresh unset makes no fetch and returns the mapping that
\* was serialized (same keys, equal sets); with force_refresh set the build
\* runs and the cache file is rewritten.
C18_CacheRoundTrip ==
    calls > 0 =>
        /\ (request.cache_present /\ ~request.args.force_refresh) =>
              /\ fetches = 0
              /\ DOMAIN graph_out = DOMAIN serialized
              /\ \A k \in DOMAIN graph_out : graph_out[k] = serialized[k]
        /\ request.args.force_refresh =>
              /\ fetches > 0
              /\ cache_file.exists /\ cache_file.timestamp = calls
              /\ cache_file.source = request.args.sleap_source
              /\ SetsOf(cache_file.graph) = graph_out

C18_Witness ==
    /\ calls = 2
    /\ request.cache_present /\ ~request.args.force_refresh
    /\ fetches = 0
    /\ \E k \in DOMAIN graph_out : graph_out[k] # {}

\* C19: for every request and every cache file an earlier call left, the call
\* without force refresh returns the mapping a fresh build with the requested
\* parameters returns against the same registry.
C19_CacheIsPureOptimization ==
    (calls > 0 /\ ~request.args.force_refresh) =>
        graph_out = build_dependency_graph(
                        AllDeps(DepData(request.args.sleap_source),
                                request.args.include_optional),
                        request.args.max_depth).graph

----------------------------------------------------------------------------
(* Claims about create_networkx_graph *)

\* C6: the node set of create_networkx_graph(g) is exactly the key set of g, and
\* an edge (p, d) exists iff d is in g[p] and d is a key of g.
C6_NodesAreKeysEdgesBetweenKeys ==
    nx_pc = "done" =>
        /\ DOMAIN G.nodes = DOMAIN nx_input
        /\ \A p \in NxNames : \A d \in NxNames :
             (<<p, d>> \in G.edges)
               <=> (p \in DOMAIN nx_input /\ d \in nx_input[p] /\ d \in DOMAIN nx_input)
        /\ G.edges \subseteq NxNames \X NxNames

\* a converted mapping with a dangling dependency beside a kept edge
C6_Witness ==
    /\ nx_pc = "done" /\ G.edges # {}
    /\ \E p \in DOMAIN nx_input : \E d \in nx_input[p] : d \notin DOMAIN nx_input

\* C20: on the empty graph calculate_graph_metrics returns num_nodes = 0,
\* num_edges = 0, mean_degree = 0, max_degree = 0, min_degree = 0, empty degree
\* maps and an empty top_packages list, without raising.
C20_EmptyGraphMetricsAreZero ==
    (nx_pc = "measured" /\ DOMAIN G.nodes = {}) =>
        /\ metrics.num_nodes = 0 /\ metrics.num_edges = 0
        /\ metrics.mean_degree.num = 0
        /\ metrics.max_degree = 0 /\ metrics.min_degree = 0
        /\ DOMAIN metrics.degree_centrality = {}
        /\ DOMAIN metrics.in_degree = {} /\ DOMAIN metrics.out_degree = {}
        /\ DOMAIN metrics.total_degree = {}
        /\ metrics.top_packages = <<>>

C20_Witness ==
    /\ nx_pc = "measured"
    /\ DOMAIN nx_input = {}
    /\ metrics.num_nodes = 0 /\ metrics.top_packages = <<>>

\* the place of node n in the insertion order of G
Position(n) == CHOOSE i \in 1..Len(G.order) : G.order[i] = n

TopNodes == {metrics.top_packages[i][1] : i \in 1..Len(metrics.top_packages)}

TopPackagesSorted ==
    LET top == metrics.top_packages
        nodes == DOMAIN G.nodes
    IN /\ Len(top) = Min({TopCount, Cardinality(nodes)})
       /\ Cardinality(TopNodes) = Len(top)
       /\ \A i \in 1..Len(top) :
            top[i][1] \in nodes /\ top[i][2] = metrics.total_degree[top[i][1]]
       /\ \A i, j \in 1..Len(top) : i < j =>
            /\ top[i][2] >= top[j][2]
            /\ top[i][2] = top[j][2] => Position(top[i][1]) < Position(top[j][1])
       /\ \A m \in nodes \ TopNodes : \A i \in 1..Len(top) :
            metrics.total_degree[m] <= top[i][2]

\* C26: after calculate_graph_metrics, total_degree[n] = in_degree[n] +
\* out_degree[n] for every node, with the degrees those of the graph;
\* top_packages holds min(10, number of nodes) pairs (node, total degree) in
\* non-increasing degree order, no node left out has a higher degree than one
\* in it, nodes of equal degree are in insertion order; and the call leaves
\* the graph as it was.
C26_DegreesAndTopPackages ==
    /\ [](nx_pc = "measured" =>
            /\ \A n \in DOMAIN G.nodes :
                 /\ metrics.in_degree[n] = Cardinality({e \in G.edges : e[2] = n})
                 /\ metrics.out_degree[n] = Cardinality({e \in G.edges : e[1] = n})
                 /\ metrics.total_degree[n] = metrics.in_degree[n] + metrics.out_degree[n]
            /\ TopPackagesSorted)
    /\ [][nx_pc' = "measured" => G' = G]_vars

C26_Witness ==
    /\ nx_pc = "measured"
    /\ metrics.num_nodes = TopCount + 1
    /\ G.edges = {<<NodeName(TopCount + 1), NodeName(1)>>}
    /\ Len(metrics.top_packages) = TopCount
    /\ metrics.top_packages[1] = <<NodeName(1), 1>>
    /\ metrics.top_packages[2] = <<NodeName(TopCount + 1), 1>>
    /\ NodeName(TopCount) \notin TopNodes

\* the keys of a DependencyGraph are normalized package names
NormalizedKeys(g) == \A k \in DOMAIN g : normalize_package_name(k) = k

RootNodes == {n \in DOMAIN G.nodes : G.nodes[n].is_root}

\* C21 as stated: at most one node of create_networkx_graph(g, r) has is_root
\* true, and none has it when r is no key of g.
C21_AtMostOneRootNoneWhenNoKey ==
    (nx_pc = "done" /\ NormalizedKeys(nx_input)) =>
        /\ Cardinality(RootNodes) <= 1
        /\ nx_root \notin DOMAIN nx_input => RootNodes = {}

\* C21 amended: at most one node has is_root true, it is the key that equals r
\* when letter case is ignored, and no node has it when no key equals r in
\* that way.
C21_AtMostOneRootIgnoringCase ==
    (nx_pc = "done" /\ NormalizedKeys(nx_input)) =>
        /\ Cardinality(RootNodes) <= 1
        /\ RootNodes = {k \in DOMAIN nx_input : k = str_lower(nx_root)}
        /\ (\A k \in DOMAIN nx_input : str_lower(k) # str_lower(nx_root)) =>
               RootNodes = {}

C21_Witness ==
    /\ nx_pc = "done"
    /\ DOMAIN nx_input = {<<"a">>, <<"b">>}
    /\ nx_root = <<"B">>
    /\ RootNodes = {<<"b">>}

----------------------------------------------------------------------------
(* Claims about the plotting functions *)

\* the misuse C22 names, per function
Misuse ==
    \/ viz_pc = "create_graph_layout"
          /\ viz_request.layout_type \notin {"spring", "kamada_kawai"}
    \/ viz_pc = "visualize_dependency_graph"
          /\ \/ viz_request.preset \notin PRESETS
             \/ viz_request.format \notin {"png", "svg", "pdf"}
    \/ viz_pc = "create_degree_distribution_plot" /\ viz_request.preset \notin PRESETS

\* C22: an unknown layout_type, preset or output format makes the function
\* raise ValueError, and when it is raised no directory and no file has been
\* created.
C22_MisuseRaisesValueErrorBeforeOutput ==
    Misuse => viz_raised = "ValueError" /\ viz_created = {}

----------------------------------------------------------------------------
(* Claims about ParsedTerraformConfig and resolve_variable_references *)

\* C7: len(get_all_resources()) equals the sum of the lengths of all the
\* per-kind collections, subscription_filters included.
C7_AllResourcesCountsEveryKind ==
    Len(get_all_resources(config)) = TotalResources(config)

\* characters outside \w among those the inputs use
NonWordChars == {"-", ".", " ", "="}

RECURSIVE WordRun(_, _)
\* the longest run of word characters of v from position j on
WordRun(v, j) ==
    IF j > Len(v) \/ v[j] \in NonWordChars THEN <<>>
    ELSE <<v[j]>> \o WordRun(v, j + 1)

\* positions of v where a reference `local.<name>` starts
RefPositions(v) == {i \in 1..Len(v) : StartsWithAt(v, LocalDot, i)}

\* the names the references of v name
RefNames(v) == {WordRun(v, i + Len(LocalDot)) : i \in RefPositions(v)}

\* v with its single reference replaced by `new`
WithReference(v, new) ==
    LET i == CHOOSE k \in RefPositions(v) : TRUE
        n == WordRun(v, i + Len(LocalDot))
    IN SubSeq(v, 1, i - 1) \o new \o SubSeq(v, i + Len(LocalDot) + Len(n), Len(v))

\* one reference, to a key of locals, with text around it
EmbedsKnownReference(v, locals) ==
    /\ Cardinality(RefPositions(v)) = 1
    /\ RefNames(v) \subseteq LocalKeys(locals)
    /\ \A n \in RefNames(v) : Len(v) > Len(LocalDot) + Len(n)

\* C8: an attribute whose value is exactly `local.<n>`, n a key of locals, equals
\* locals[n] after resolve_variable_references.
C8_ExactReferenceResolved ==
    tf_pc = "resolved" =>
        \A kind \in ListedKinds : \A i \in 1..Len(parsed[kind]) :
            \A key \in DOMAIN parsed[kind][i].attributes :
                \A n \in LocalKeys(parsed.locals) :
                    (/\ parsed[kind][i].attributes[key].isstr
                     /\ parsed[kind][i].attributes[key].s = LocalDot \o n)
                    => config[kind][i].attributes[key] = StrVal(Lookup(parsed.locals, n))

\* C9: a reference `local.<n>`, n a key of locals, embedded in a longer attribute
\* or condition string is replaced by locals[n] and the text around it is kept.
C9_EmbeddedReferenceResolved ==
    tf_pc = "resolved" =>
        \A kind \in ListedKinds : \A i \in 1..Len(parsed[kind]) :
            /\ \A key \in DOMAIN parsed[kind][i].attributes :
                 LET v == parsed[kind][i].attributes[key]
                 IN (v.isstr /\ EmbedsKnownReference(v.s, parsed.locals))
                    => config[kind][i].attributes[key].s
                         = WithReference(v.s, Lookup(parsed.locals,
                                                     CHOOSE n \in RefNames(v.s) : TRUE))
            /\ LET cond == parsed[kind][i].condition
               IN EmbedsKnownReference(cond, parsed.locals)
                  => config[kind][i].condition
                       = WithReference(cond, Lookup(parsed.locals,
                                                    CHOOSE n \in RefNames(cond) : TRUE))

\* C10: an attribute value or condition string whose references all name locals
\* absent from the mapping is left unchanged.
C10_AbsentReferencesUntouched ==
    tf_pc = "resolved" =>
        \A kind \in KindSet : \A i \in 1..Len(parsed[kind]) :
            /\ \A key \in DOMAIN parsed[kind][i].attributes :
                 LET v == parsed[kind][i].attributes[key]
                 IN (v.isstr /\ RefNames(v.s) \cap LocalKeys(parsed.locals) = {})
                    => config[kind][i].attributes[key] = v
            /\ RefNames(parsed[kind][i].condition) \cap LocalKeys(parsed.locals) = {}
                 => config[kind][i].condition = parsed[kind][i].condition

\* no key of locals is the beginning of another key
PrefixFree(locals) ==
    \A a \in LocalKeys(locals) : \A b \in LocalKeys(locals) :
        a # b => ~StartsWithAt(b, a, 1)

\* C25: when an attribute written as `local.<a>` is replaced by locals[a] and
\* locals[a] contains `local.<b>`, b a key of locals, the resolved attribute is
\* locals[a] with that inner reference still in it, in whatever order the
\* locals were inserted.
C25_ResolutionIsNotRecursive ==
    (tf_pc = "resolved" /\ PrefixFree(parsed.locals)) =>
        \A kind \in ListedKinds : \A i \in 1..Len(parsed[kind]) :
            \A key \in DOMAIN parsed[kind][i].attributes :
                \A a \in LocalKeys(parsed.locals) :
                    (/\ parsed[kind][i].attributes[key].isstr
                     /\ parsed[kind][i].attributes[key].s = LocalDot \o a
                     /\ RefNames(Lookup(parsed.locals, a))
                           \cap LocalKeys(parsed.locals) # {})
                    => config[kind][i].attributes[key] = StrVal(Lookup(parsed.locals, a))

----------------------------------------------------------------------------
(* Claims about parse_terraform_file and parse_directory *)

FileParsed == parse_pc = "file_done" /\ raised = ""

\* the file holds a block of this kind
HasBlock(content, kind) ==
    \E i \in 1..Len(content) :
        content[i].line = "resource" /\ content[i].type = ResourceType(kind)

\* the file's resource block has a count line with a ternary
HasTernaryCount(content) ==
    \E i \in 1..Len(content) :
        /\ content[i].line = "field" /\ content[i].key = Chars("count")
        /\ Contains(content[i].raw, <<"?">>)

\* C11: for every supported kind, a block with `count = <cond> ? 1 : 0` yields
\* a resource with is_conditional = true and condition = the text before the
\* `?`, trimmed, before resolution; a block without a ternary count yields
\* is_conditional = false and an empty condition.
C11_TernaryCountMarksEveryKind ==
    FileParsed =>
        \A kind \in KindSet :
            HasBlock(tf_file.content, kind) =>
                /\ Len(detected[kind]) = 1
                /\ detected[kind][1].is_conditional = HasTernaryCount(tf_file.content)
                /\ detected[kind][1].condition =
                       IF HasTernaryCount(tf_file.content) THEN LocalDot \o nameE
                       ELSE <<>>

\* the rule the i-th sub-block of SecurityGroupText describes
ExpectedRule(i) ==
    [k \in {"from_port", "to_port", "protocol"} |->
        CASE k = "from_port" -> IntVal(i)
          [] k = "to_port" -> IntVal(10 * i)
          [] k = "protocol" -> StrVal(IF i % 2 = 1 THEN <<"t">> ELSE <<"u">>)]

\* C12: a security-group block with N >= 1 ingress sub-blocks is parsed into
\* one security group whose attributes['ingress_rules'] has exactly N entries,
\* in source order, each with the from_port, to_port and protocol of its
\* sub-block.
C12_IngressRulesInSourceOrder ==
    FileParsed =>
        \A n \in 1..MaxIngress :
            tf_file.content = SecurityGroupText(n) =>
                /\ Len(returned.security_groups) = 1
                /\ "ingress_rules" \in DOMAIN returned.security_groups[1].attributes
                /\ returned.security_groups[1].attributes["ingress_rules"].items
                     = [i \in 1..n |-> ExpectedRule(i)]

\* C13: for every supported kind, a block whose body holds one level of nested
\* braces is matched as a whole: a supported field written after the nested
\* block is captured in attributes exactly as when it is written before it.
C13_FieldAfterNestedBlockCaptured ==
    FileParsed =>
        \A kind \in KindSet \ {"security_groups", "eips"} :
            tf_file.content = BlockText(kind, "nested_first") =>
                /\ Len(returned[kind]) = 1
                /\ returned[kind][1].attributes =
                     parse_terraform_file(BlockText(kind, "nested_last"))[kind][1].attributes

AllReadable(tf_files) == \A i \in 1..Len(tf_files) : tf_files[i].readable

\* C14: a missing input is signalled: parse_terraform_file raises
\* FileNotFoundError when the path does not exist; parse_directory raises
\* FileNotFoundError when the directory does not exist or is not a directory,
\* and raises when it holds no .tf file; neither raises because the text lacks
\* a field or a resource kind.
C14_MissingInputIsSignalled ==
    /\ parse_pc = "file_done" =>
         /\ ~tf_file.exists => raised = "FileNotFoundError" /\ returned = EmptyConfig
         /\ tf_file.exists /\ tf_file.readable => raised = ""
    /\ parse_pc = "directory_done" =>
         /\ (~directory.exists \/ ~directory.is_dir) =>
               raised = "FileNotFoundError" /\ returned = EmptyConfig
         /\ (directory.exists /\ directory.is_dir /\ directory.tf_files = <<>>) =>
               raised # "" /\ returned = EmptyConfig
         /\ (directory.exists /\ directory.is_dir /\ directory.tf_files # <<>>
               /\ AllReadable(directory.tf_files)) => raised = ""

C14_Witness ==
    /\ parse_pc = "directory_done"
    /\ directory = NotADirectory
    /\ raised = "FileNotFoundError"

IsReadable(file) == file.readable

\* C15: when one of several .tf files cannot be read or decoded, that file is
\* skipped and parse_directory still returns a config holding the resources of
\* every other file.
C15_BadFileIsSkipped ==
    (/\ parse_pc = "directory_done"
     /\ directory.exists /\ directory.is_dir
     /\ Len(directory.tf_files) > 1
     /\ Cardinality({i \in 1..Len(directory.tf_files) :
                        ~directory.tf_files[i].readable}) = 1) =>
        /\ raised = ""
        /\ returned = MergeFiles(EmptyConfig, SelectSeq(directory.tf_files, IsReadable), 1)

\* the config parse_terraform_file returns for the i-th file of the directory
FileConfig(i) == parse_terraform_file(directory.tf_files[i].content)

RECURSIVE Offset(_, _)
\* resources of a kind held by the files before the i-th
Offset(kind, i) ==
    IF i = 1 THEN 0 ELSE Offset(kind, i - 1) + Len(FileConfig(i - 1)[kind])

\* the last file that defines the local
LastDefining(name) ==
    CHOOSE i \in 1..Len(directory.tf_files) :
        /\ name \in LocalKeys(FileConfig(i).locals)
        /\ \A j \in (i + 1)..Len(directory.tf_files) :
              name \notin LocalKeys(FileConfig(j).locals)

\* C16: parse_directory over files f1..fn returns a config whose per-kind
\* collections (subscription_filters included) are the concatenations, in that
\* order, of the per-file collections, and whose locals is the right-biased
\* union of the per-file locals.
C16_MergeIsConcatenationAndRightBiasedUnion ==
    (parse_pc = "directory_done" /\ raised = "") =>
        LET n == Len(directory.tf_files)
        IN /\ \A kind \in KindSet :
                /\ Len(returned[kind]) = Offset(kind, n + 1)
                /\ \A i \in 1..n : \A j \in 1..Len(FileConfig(i)[kind]) :
                      returned[kind][Offset(kind, i) + j] = FileConfig(i)[kind][j]
           /\ LocalKeys(returned.locals)
                = UNION {LocalKeys(FileConfig(i).locals) : i \in 1..n}
           /\ \A name \in LocalKeys(returned.locals) :
                Lookup(returned.locals, name)
                  = Lookup(FileConfig(LastDefining(name)).locals, name)

C16_Witness ==
    /\ parse_pc = "directory_done" /\ raised = ""
    /\ Len(directory.tf_files) = 2
    /\ Len(returned.iam_roles) = 2
    /\ returned.iam_roles[1].name = "r1" /\ returned.iam_roles[2].name = "r2"
    /\ Lookup(returned.locals, Chars("name")) = <<"Y">>
\* C29: after parse_terraform_file, a subscription filter whose destination_arn
\* or log_group_name was written as exactly `local.<n>`, n a key of the
\* file's locals, has that attribute equal to locals[n].
C29_SubscriptionFilterReferencesResolved ==
    FileParsed =>
        \A i \in 1..Len(detected.subscription_filters) :
            \A key \in DOMAIN detected.subscription_filters[i].attributes
                         \cap {"destination_arn", "log_group_name"} :
                \A n \in LocalKeys(detected.locals) :
                    detected.subscription_filters[i].attributes[key] = StrVal(LocalDot \o n)
                    => returned.subscription_filters[i].attributes[key]
                         = StrVal(Lookup(detected.locals, n))

\* the i-th file as parse_terraform_file holds it before it resolves references
FileDetected(i) ==
    detect_conditional_resources(directory.tf_files[i].content,
                                 ExtractResources(directory.tf_files[i].content))

\* C30: when one file of a directory defines local n and another file, which
\* does not define n, holds a resource whose attribute is `local.n`, that
\* attribute equals locals[n] in the config parse_directory returns, in either
\* order of the two files.
C30_DirectoryResolvesAgainstMergedLocals ==
    (parse_pc = "directory_done" /\ raised = "") =>
        \A i \in 1..Len(directory.tf_files) : \A kind \in ListedKinds :
            \A j \in 1..Len(FileDetected(i)[kind]) :
                \A key \in DOMAIN FileDetected(i)[kind][j].attributes :
                    \A n \in LocalKeys(returned.locals)
                                \ LocalKeys(FileDetected(i).locals) :
                        FileDetected(i)[kind][j].attributes[key] = StrVal(LocalDot \o n)
                        => returned[kind][Offset(kind, i) + j].attributes[key]
                             = StrVal(Lookup(returned.locals, n))

============================================================================
